---- MODULE Spec2Model ----
(***************************************************************************)
(* Model of the Taobao search client (fish_intel_mvp/jobs/crawl_taobao.py) *)
(* and of the cookie renewer it escalates to.  Strings are sequences of    *)
(* one-character strings, so that the cookie and URL helpers are computed   *)
(* character by character as the code's regular expressions and splits do. *)
(***************************************************************************)
EXTENDS Integers, Sequences, FiniteSets, TLC

(* ------------------------------------------------------------------ *)
(* Bounds of the model                                                 *)
(* ------------------------------------------------------------------ *)
MaxKeywords == 2
MaxPages == 3
MaxItemsCap == 3
MaxPageItems == 2

(* ------------------------------------------------------------------ *)
(* Strings                                                             *)
(* ------------------------------------------------------------------ *)
\* Python's None, for Optional[str] values: no string of characters equals it.
None == <<"None">>

IsSpace(c) == c \in {" ", "\t", "\n", "\r"}

RECURSIVE LStrip(_)
LStrip(s) == IF s = <<>> THEN s
             ELSE IF IsSpace(Head(s)) THEN LStrip(Tail(s)) ELSE s

RECURSIVE RStrip(_)
RStrip(s) == IF s = <<>> THEN s
             ELSE IF IsSpace(s[Len(s)]) THEN RStrip(SubSeq(s, 1, Len(s) - 1)) ELSE s

\* str.strip()
Strip(s) == RStrip(LStrip(s))

\* str.startswith(p)
StartsWith(s, p) == Len(s) >= Len(p) /\ SubSeq(s, 1, Len(p)) = p

\* index of the first occurrence of character c in s, 0 when there is none
IndexOf(s, c) ==
    IF \E i \in 1..Len(s) : s[i] = c
    THEN CHOOSE i \in 1..Len(s) : s[i] = c /\ \A j \in 1..(i - 1) : s[j] # c
    ELSE 0

\* str.split(c): the parts of s between occurrences of the character c
RECURSIVE Split(_, _)
Split(s, c) ==
    LET i == IndexOf(s, c)
    IN IF i = 0 THEN <<s>>
       ELSE <<SubSeq(s, 1, i - 1)>> \o Split(SubSeq(s, i + 1, Len(s)), c)

\* "; ".join(parts)
RECURSIVE JoinCookie(_)
JoinCookie(parts) ==
    IF parts = <<>> THEN <<>>
    ELSE IF Len(parts) = 1 THEN parts[1]
    ELSE parts[1] \o <<";", " ">> \o JoinCookie(Tail(parts))

\* str.replace(c, r) for a single character c
RECURSIVE ReplaceChar(_, _, _)
ReplaceChar(s, c, r) ==
    IF s = <<>> THEN <<>>
    ELSE (IF Head(s) = c THEN r ELSE <<Head(s)>>) \o ReplaceChar(Tail(s), c, r)

IsDigit(c) == c \in {"0", "1", "2", "3", "4", "5", "6", "7", "8", "9"}

\* the first position from i on that holds no white space (Len(s) + 1 at the end)
RECURSIVE SkipWs(_, _)
SkipWs(s, i) == IF i <= Len(s) /\ IsSpace(s[i]) THEN SkipWs(s, i + 1) ELSE i

\* the first position from i on that holds no digit
RECURSIVE SkipDigits(_, _)
SkipDigits(s, i) == IF i <= Len(s) /\ IsDigit(s[i]) THEN SkipDigits(s, i + 1) ELSE i

\* sep.join(parts)
RECURSIVE JoinWith(_, _)
JoinWith(parts, sep) ==
    IF parts = <<>> THEN <<>>
    ELSE IF Len(parts) = 1 THEN parts[1]
    ELSE parts[1] \o sep \o JoinWith(Tail(parts), sep)

(* ------------------------------------------------------------------ *)
(* Cookie names and the cookie strings of the environment              *)
(* ------------------------------------------------------------------ *)
TK == <<"_", "m", "_", "h", "5", "_", "t", "k">>
TKENC == TK \o <<"_", "e", "n", "c">>
CNA == <<"c", "n", "a">>

Pair(k, v) == k \o <<"=">> \o v

\* values the server gives the rotating `_m_h5_tk` cookie: "<token>_<expiry>"
TokenCookieValues == {<<"A", "_", "1">>, <<"B", "_", "2">>}

\* TAOBAO_COOKIE as configured before the run: empty, without the token cookie,
\* or a full browser cookie string
SeedCookies ==
    { <<>>,
      Pair(CNA, <<"c">>),
      JoinCookie(<<Pair(TK, <<"A", "_", "1">>), Pair(TKENC, <<"e">>), Pair(CNA, <<"c">>)>>) }

\* cookie strings the renewer returns: both required cookies first, then the rest
RenewedCookies ==
    { JoinCookie(<<Pair(TK, v), Pair(TKENC, <<"f">>), Pair(CNA, <<"d">>)>>) :
        v \in TokenCookieValues }

(* ------------------------------------------------------------------ *)
(* Cookie helpers of the client                                        *)
(* ------------------------------------------------------------------ *)
\* positions where the pattern (?:^|;\s*)key= can end its prefix: i is the first
\* character of key, at the start of the string or after a ';' and white space only
KeyStartsAt(cookie, key, i) ==
    /\ i >= 1
    /\ i + Len(key) <= Len(cookie)
    /\ SubSeq(cookie, i, i + Len(key) - 1) = key
    /\ cookie[i + Len(key)] = "="
    /\ \/ i = 1
       \/ \E j \in 1..(i - 1) :
            /\ cookie[j] = ";"
            /\ \A m \in (j + 1)..(i - 1) : IsSpace(cookie[m])
    \* ([^;]+) needs at least one character that is not ';'
    /\ i + Len(key) + 1 <= Len(cookie)
    /\ cookie[i + Len(key) + 1] # ";"

\* re.search(rf"(?:^|;\s*){key}=([^;]+)", cookie): group 1 of the leftmost match, stripped
extract_cookie_value(cookie, key) ==
    IF \E i \in 1..Len(cookie) : KeyStartsAt(cookie, key, i)
    THEN LET i == CHOOSE i \in 1..Len(cookie) :
                    /\ KeyStartsAt(cookie, key, i)
                    /\ \A j \in 1..(i - 1) : ~KeyStartsAt(cookie, key, j)
             rest == SubSeq(cookie, i + Len(key) + 1, Len(cookie))
             stop == IndexOf(rest, ";")
         IN Strip(IF stop = 0 THEN rest ELSE SubSeq(rest, 1, stop - 1))
    ELSE <<>>

\* the value taken whole: no cut at the first "_"
extract_token_from_cookie_value_unsplit(value) ==
    LET raw == Strip(value)
    IN IF raw = <<>> THEN None ELSE raw

extract_token_from_cookie_value(value) ==
    LET raw == Strip(value)
    IN IF raw = <<>> THEN None
       ELSE LET cut == IF IndexOf(raw, "_") # 0
                       THEN Strip(SubSeq(raw, 1, IndexOf(raw, "_") - 1))
                       ELSE raw
            IN IF cut = <<>> THEN None ELSE cut

extract_token_from_cookie(cookie) ==
    extract_token_from_cookie_value(extract_cookie_value(cookie, TK))

\* the part split at its last "=" instead of its first
SeedPart_last_equals(jar, part) ==
    LET p == Strip(part)
        eq == IF IndexOf(p, "=") = 0 THEN 0
              ELSE CHOOSE i \in 1..Len(p) : p[i] = "=" /\ \A j \in (i + 1)..Len(p) : p[j] # "="
        key == Strip(SubSeq(p, 1, eq - 1))
        value == Strip(SubSeq(p, eq + 1, Len(p)))
    IN IF p = <<>> \/ eq = 0 \/ key = <<>> THEN jar
       ELSE [k \in (DOMAIN jar) \cup {key} |-> IF k = key THEN value ELSE jar[k]]

\* one part of cookie.split(";") as the jar entry it sets, or no entry
SeedPart(jar, part) ==
    LET p == Strip(part)
        eq == IndexOf(p, "=")
        key == Strip(SubSeq(p, 1, eq - 1))
        value == Strip(SubSeq(p, eq + 1, Len(p)))
    IN IF p = <<>> \/ eq = 0 \/ key = <<>> THEN jar
       ELSE [k \in (DOMAIN jar) \cup {key} |-> IF k = key THEN value ELSE jar[k]]

RECURSIVE SeedParts(_, _)
SeedParts(jar, parts) ==
    IF parts = <<>> THEN jar
    ELSE SeedParts(SeedPart(jar, Head(parts)), Tail(parts))

EmptyJar == [k \in {} |-> <<>>]

\* the jar of a fresh session after _seed_session_cookies(session, cookie)
seed_session_cookies(cookie) == SeedParts(EmptyJar, Split(cookie, ";"))

\* _cookie_dict_from_jar(session).get(name, "")
JarGet(jar, name) == IF name \in DOMAIN jar THEN jar[name] ELSE <<>>

\* the jar after the HTTP library stores a Set-Cookie of the response
JarSet(jar, name, value) ==
    [k \in (DOMAIN jar) \cup {name} |-> IF k = name THEN value ELSE jar[k]]

(* ------------------------------------------------------------------ *)
(* Item normalisation                                                  *)
(* ------------------------------------------------------------------ *)
\* re.sub(r"<[^>]+>", "", text).strip()
RECURSIVE RemoveTags(_)
RemoveTags(s) ==
    IF s = <<>> THEN <<>>
    ELSE IF Head(s) = "<" /\ IndexOf(Tail(s), ">") >= 2
         THEN RemoveTags(SubSeq(s, IndexOf(Tail(s), ">") + 2, Len(s)))
         ELSE <<Head(s)>> \o RemoveTags(Tail(s))

strip_html(text) == Strip(RemoveTags(text))

HttpsColon == <<"h", "t", "t", "p", "s", ":">>
HttpScheme == <<"h", "t", "t", "p", ":", "/", "/">>
HttpsScheme == HttpsColon \o <<"/", "/">>
SearchOrigin == HttpsScheme \o <<"s", ".", "t", "a", "o", "b", "a", "o", ".", "c", "o", "m">>
ItemUrlPrefix ==
    HttpsScheme \o <<"i", "t", "e", "m", ".", "t", "a", "o", "b", "a", "o", ".", "c", "o", "m",
                     "/", "i", "t", "e", "m", ".", "h", "t", "m", "?", "i", "d", "=">>

\* what one of the URL fields resolves to, None when the loop goes on to the next field
ResolveUrlField(value) ==
    LET raw == Strip(value)
    IN IF raw = <<>> THEN None
       ELSE IF StartsWith(raw, <<"/", "/">>) THEN HttpsColon \o raw
       ELSE IF StartsWith(raw, HttpScheme) \/ StartsWith(raw, HttpsScheme) THEN raw
       ELSE IF StartsWith(raw, <<"/">>) THEN SearchOrigin \o raw
       ELSE None

ItemId(item) == Strip(IF item.item_id # <<>> THEN item.item_id ELSE item.itemId)

normalize_detail_url(item) ==
    IF ResolveUrlField(item.itemUrl) # None THEN ResolveUrlField(item.itemUrl)
    ELSE IF ResolveUrlField(item.url) # None THEN ResolveUrlField(item.url)
    ELSE IF ResolveUrlField(item.detail_url) # None THEN ResolveUrlField(item.detail_url)
    ELSE IF ItemId(item) # <<>> THEN ItemUrlPrefix \o ItemId(item)
    ELSE None

\* float(text), written as Python writes the float: no leading zeros, at least one
\* decimal, no trailing zeros
float_of(text) ==
    LET dot == IndexOf(text, ".")
        int_digits == IF dot = 0 THEN text ELSE SubSeq(text, 1, dot - 1)
        frac_digits == IF dot = 0 THEN <<>> ELSE SubSeq(text, dot + 1, Len(text))
        RECURSIVE lead(_)
        lead(d) == IF Len(d) > 1 /\ Head(d) = "0" THEN lead(Tail(d)) ELSE d
        RECURSIVE trail(_)
        trail(d) == IF d # <<>> /\ d[Len(d)] = "0" THEN trail(SubSeq(d, 1, Len(d) - 1)) ELSE d
    IN lead(int_digits) \o <<".">> \o (IF trail(frac_digits) = <<>> THEN <<"0">> ELSE trail(frac_digits))

\* _extract_float: the first \d+(?:\.\d+)? of the text without "," as a float, or None
extract_float(value) ==
    IF value = None THEN None
    ELSE LET text == Strip(ReplaceChar(value, ",", <<>>))
             first == IF \E i \in 1..Len(text) : IsDigit(text[i])
                      THEN CHOOSE i \in 1..Len(text) :
                              IsDigit(text[i]) /\ \A j \in 1..(i - 1) : ~IsDigit(text[j])
                      ELSE 0
             int_end == SkipDigits(text, first)
             end == IF int_end + 1 <= Len(text) /\ text[int_end] = "." /\ IsDigit(text[int_end + 1])
                    THEN SkipDigits(text, int_end + 1)
                    ELSE int_end
         IN IF text = <<>> \/ first = 0 THEN None
            ELSE float_of(SubSeq(text, first, end - 1))

\* `a or b` for values that are None or strings
Or(a, b) == IF a # None /\ a # <<>> THEN a ELSE b

\* the product record of one source item (the fields the run reads)
Product(src, keyword) ==
    [keyword |-> keyword,
     title |-> strip_html(src.title),
     price |-> extract_float(src.price),
     original_price |-> extract_float(Or(src.origPrice, Or(src.priceBeforeCoupon, src.originalPrice))),
     detail_url |-> normalize_detail_url(src)]

\* items are kept whatever their title and URL
RECURSIVE extract_products_keeps_all(_, _)
extract_products_keeps_all(items, keyword) ==
    IF items = <<>> THEN <<>>
    ELSE <<Product(Head(items), keyword)>> \o extract_products_keeps_all(Tail(items), keyword)

\* an item whose price has no digits is left out
RECURSIVE extract_products_requires_price(_, _)
extract_products_requires_price(items, keyword) ==
    IF items = <<>> THEN <<>>
    ELSE LET src == Head(items)
             rest == extract_products_requires_price(Tail(items), keyword)
         IN IF strip_html(src.title) = <<>> THEN rest
            ELSE IF normalize_detail_url(src) = None THEN rest
            ELSE IF extract_float(src.price) = None THEN rest
            ELSE <<Product(src, keyword)>> \o rest

\* the loop body of _extract_products: items with no title or no URL are skipped
RECURSIVE extract_products(_, _)
extract_products(items, keyword) ==
    IF items = <<>> THEN <<>>
    ELSE LET src == Head(items)
             rest == extract_products(Tail(items), keyword)
         IN IF strip_html(src.title) = <<>> THEN rest
            ELSE IF normalize_detail_url(src) = None THEN rest
            ELSE <<Product(src, keyword)>> \o rest

\* source items of the server's itemsArray
Item(title, itemUrl, item_id) ==
    [title |-> title, itemUrl |-> itemUrl, url |-> <<>>, detail_url |-> <<>>,
     item_id |-> item_id, itemId |-> <<>>, price |-> <<"8">>, origPrice |-> None,
     priceBeforeCoupon |-> None, originalPrice |-> None]

SourceItems ==
    { Item(<<"t">>, <<"/", "/", "a">>, <<>>),
      Item(<<"<", "b", ">", "t", "<", "/", "b", ">">>, HttpsScheme \o <<"a">>, <<>>),
      Item(<<"<", "i", ">">>, <<>>, <<"7">>),
      Item(<<"u">>, <<"p">>, <<>>) }

\* the item arrays a response can carry
ItemArrays == UNION { [1..n -> SourceItems] : n \in 0..MaxPageItems }

\* what _extract_products returns for the responses to a search of keyword k
PageProducts == [k \in 1..MaxKeywords |-> {extract_products(items, k) : items \in ItemArrays}]

(* ------------------------------------------------------------------ *)
(* State of one run()                                                  *)
(* ------------------------------------------------------------------ *)
VARIABLES
    envCookie,              \* os.environ["TAOBAO_COOKIE"]
    auto_refresh,           \* _auto_refresh_enabled()
    keywords,               \* the keyword list, as keyword numbers
    max_pages,
    max_items,
    pc,                     \* position in run()
    cookie,
    token,
    my_cna,
    session,                \* [id: which requests.Session object, jar: its cookies]
    browser_refreshed_once,
    written,
    kw,                     \* index of `keyword` in keywords
    page,
    attempt,
    products,               \* [bound, items]: the local `products`, unbound before its first assignment
    resp,                   \* how the _fetch_page call being handled ends
    sink,                   \* records handed to insert_raw_event / upsert_product_snapshot
    renewLog,               \* reasons of the _try_refresh_cookie calls made so far
    requested,              \* <<keyword index, page>> of every HTTP request issued
    emptyPages,             \* <<keyword index, page>> where `not products` ended the keyword
    pageFetches,            \* HTTP requests issued for the current page
    yielded,                \* records of the products every successful response carried
    retryCause,             \* why the current page is fetched again: "none", "local", "renewal"
    pageEnd,                \* how the attempt loop of the current page ended
    seedCookie,             \* what os.getenv("TAOBAO_COOKIE") gave at line 407
    slept                   \* time.sleep(sleep_seconds) ran since the last HTTP request

\* one execution of refresh_taobao_cookie()
VARIABLES
    backend,                \* TAOBAO_COOKIE_REFRESH_BACKEND, then the local `backend`
    timeout_seconds,        \* the argument, then the local after line 343
    poll_interval,          \* the argument, then the local after line 344 (in ticks)
    rpc,                    \* position in refresh_taobao_cookie()
    active_backend,         \* "" while `page is None`
    started,                \* browser-side resources that were started
    closed,                 \* browser-side resources that were closed
    now,                    \* time.time(), in ticks
    deadline,
    browserJar,             \* the raw cookies of the browser at the poll being handled
    cookieString,           \* the local `cookie` of line 406
    envFile,                \* the lines of the .env file
    result,                 \* the returned cookie string
    error,                  \* the exception the call ends with
    outcome,                \* how the try block was left, while `finally` runs
    startLog,               \* the backends whose start was attempted, with success
    navigated,              \* navigate_fn was called
    polled,                 \* a poll of the cookie jar was started
    lastPollAt,             \* when the last poll started
    sawRequired             \* some poll found both required cookies

\* one application of a helper function
VARIABLES
    fn,                     \* the function applied
    fnArgs,                 \* its arguments
    fnResult                \* [done, value]: its return value once it has returned

cfgVars == <<auto_refresh, keywords, max_pages, max_items, seedCookie>>
renewerVars == <<backend, timeout_seconds, poll_interval, rpc, active_backend, started, closed,
                 now, deadline, browserJar, cookieString, envFile, result, error, outcome,
                 startLog, navigated, polled, lastPollAt, sawRequired>>
fnVars == <<fn, fnArgs, fnResult>>
runVars == <<pc, cookie, token, my_cna, session, browser_refreshed_once, written,
             kw, page, attempt, products, resp, sink>>
histVars == <<renewLog, requested, emptyPages, pageFetches, yielded, retryCause, pageEnd,
              slept>>
vars == <<envCookie, cfgVars, runVars, histVars, renewerVars, fnVars>>

\* no refresh_taobao_cookie() execution is modelled step by step
RenewerIdle ==
    /\ backend = "auto"
    /\ timeout_seconds = 0
    /\ poll_interval = 0
    /\ rpc = "idle"
    /\ active_backend = ""
    /\ started = {}
    /\ closed = {}
    /\ now = 0
    /\ deadline = 0
    /\ browserJar = <<>>
    /\ cookieString = <<>>
    /\ envFile = <<>>
    /\ result = <<"None">>
    /\ error = "none"
    /\ outcome = "none"
    /\ startLog = <<>>
    /\ navigated = FALSE
    /\ polled = FALSE
    /\ lastPollAt = 0
    /\ sawRequired = FALSE

\* no helper function is being applied
FnIdle ==
    /\ fn = "none"
    /\ fnArgs = <<>>
    /\ fnResult = [done |-> FALSE, value |-> <<>>]

NoResp == "none"
UnboundProducts == [bound |-> FALSE, items |-> <<>>]
Bound(items) == [bound |-> TRUE, items |-> items]

\* what refresh_taobao_cookie can do: raise (None) or return a cookie string
RenewOutcomes == {None} \cup RenewedCookies

\* _build_session(cookie, user_agent): a new session seeded from the cookie string
build_session(old, c) == [id |-> old.id + 1, jar |-> seed_session_cookies(c)]

\* the TAOBAO_AUTO_REFRESH_COOKIE switch of line 116 is not looked at
try_refresh_cookie_ignores_switch(r) ==
    IF r = None \/ r = <<>> THEN None ELSE r

\* the return value of _try_refresh_cookie when the renewer would produce r
try_refresh_cookie(r) ==
    IF ~auto_refresh THEN None
    ELSE IF r = None \/ r = <<>> THEN None
    ELSE r

Init ==
    /\ envCookie \in SeedCookies
    /\ auto_refresh \in BOOLEAN
    /\ keywords \in {[i \in 1..n |-> i] : n \in 1..MaxKeywords}
    /\ max_pages \in 1..MaxPages
    /\ max_items \in 1..MaxItemsCap
    /\ pc = "start"
    /\ cookie = <<>>
    /\ token = None
    /\ my_cna = <<>>
    /\ session = [id |-> 0, jar |-> EmptyJar]
    /\ browser_refreshed_once = FALSE
    /\ written = 0
    /\ kw = 1
    /\ page = 1
    /\ attempt = 0
    /\ products = UnboundProducts
    /\ resp = NoResp
    /\ sink = <<>>
    /\ renewLog = <<>>
    /\ requested = {}
    /\ emptyPages = {}
    /\ pageFetches = 0
    /\ yielded = <<>>
    /\ retryCause = "none"
    /\ pageEnd = "none"
    /\ seedCookie = envCookie
    /\ slept = FALSE
    /\ RenewerIdle
    /\ FnIdle

(* ------------------------------------------------------------------ *)
(* run(): cold start                                                   *)
(* ------------------------------------------------------------------ *)
\* the `_m_h5_tk` test of line 420 dropped: only a missing cookie ends the run
cold_start_gives_up_without_cookie_only(c, t) == c = <<>>

\* the two `return 0` of the cold start: no cookie (line 410), or no token (line 420)
cold_start_gives_up(c, t) == c = <<>> \/ t = None

\* lines 407-441: read the cookie, renew it if it is missing or has no token
RunStart ==
    /\ pc = "start"
    /\ \E r1 \in RenewOutcomes, r2 \in RenewOutcomes :
        LET c0 == Strip(envCookie)
            call1 == c0 = <<>>
            res1 == IF call1 THEN try_refresh_cookie(r1) ELSE None
            c1 == IF call1 THEN (IF res1 = None THEN <<>> ELSE res1) ELSE c0
            t1 == extract_token_from_cookie(c1)
            call2 == c1 # <<>> /\ t1 = None
            res2 == IF call2 THEN try_refresh_cookie(r2) ELSE None
            c2 == IF res2 # None THEN res2 ELSE c1
            t2 == IF res2 # None THEN extract_token_from_cookie(c2) ELSE t1
            env1 == IF res1 # None THEN res1 ELSE envCookie
        IN /\ renewLog' = renewLog
                            \o (IF call1 THEN <<"cookie_missing">> ELSE <<>>)
                            \o (IF call2 THEN <<"token_missing_in_cookie">> ELSE <<>>)
           /\ envCookie' = IF res2 # None THEN res2 ELSE env1
           /\ IF cold_start_gives_up(c1, t2)
              THEN /\ pc' = "done"
                   /\ UNCHANGED <<cookie, token, my_cna, session>>
              ELSE /\ pc' = "page_top"
                   /\ cookie' = c2
                   /\ token' = t2
                   /\ my_cna' = extract_cookie_value(c2, CNA)
                   /\ session' = build_session(session, c2)
    /\ UNCHANGED <<cfgVars, renewerVars, fnVars, slept, browser_refreshed_once, written, kw, page, attempt, products,
                   resp, sink, requested, emptyPages, pageFetches, yielded, retryCause, pageEnd>>

(* ------------------------------------------------------------------ *)
(* run(): the keyword / page / attempt loops                           *)
(* ------------------------------------------------------------------ *)
\* the cap test off by one
reached_max_items_late(w) == w > max_items

\* `written >= max_items`, the test of lines 448 and 508
reached_max_items(w) == w >= max_items

\* a failed keyword ends the whole run
NextKeywordAbortsRun ==
    /\ pc' = "done"
    /\ UNCHANGED <<kw, page>>

\* the `break` of line 502 dropped: an empty page is followed by the next page
NextKeyword_keeps_paging ==
    IF page < max_pages
    THEN /\ page' = page + 1
         /\ pc' = "page_top"
         /\ UNCHANGED kw
    ELSE IF kw < Len(keywords)
    THEN /\ kw' = kw + 1
         /\ page' = 1
         /\ pc' = "page_top"
    ELSE /\ pc' = "done"
         /\ UNCHANGED <<kw, page>>

\* leave the page loop of this keyword: the next keyword's first page, or return
NextKeyword ==
    IF kw < Len(keywords)
    THEN /\ kw' = kw + 1
         /\ page' = 1
         /\ pc' = "page_top"
    ELSE /\ pc' = "done"
         /\ UNCHANGED <<kw, page>>

\* the page loop steps by two
NextPage_skips_a_page ==
    IF page + 1 < max_pages
    THEN /\ page' = page + 2
         /\ pc' = "page_top"
         /\ UNCHANGED kw
    ELSE NextKeyword

\* the next iteration of `for page in range(1, max_pages + 1)`
NextPage ==
    IF page < max_pages
    THEN /\ page' = page + 1
         /\ pc' = "page_top"
         /\ UNCHANGED kw
    ELSE NextKeyword

\* lines 447-452: the cap test at the top of a page, then the first attempt
PageTop ==
    /\ pc = "page_top"
    /\ IF reached_max_items(written)
       THEN /\ pc' = "done"
            /\ UNCHANGED <<attempt, pageFetches, retryCause, pageEnd>>
       ELSE /\ pc' = "fetch"
            /\ attempt' = 0
            /\ pageFetches' = 0
            /\ retryCause' = "none"
            /\ pageEnd' = "none"
    /\ UNCHANGED <<envCookie, cfgVars, renewerVars, fnVars, slept, cookie, token, my_cna, session, browser_refreshed_once,
                   written, kw, page, products, resp, sink, renewLog, requested, emptyPages, yielded>>

\* a record as the sink receives it while page `page` of keyword `kw` is processed
SinkRecord(product) ==
    [kw |-> kw, page |-> page, keyword |-> keywords[kw], title |-> product.title,
     detail_url |-> product.detail_url]

Records(items) == [i \in 1..Len(items) |-> SinkRecord(items[i])]


\* how _fetch_page can end: it raises in session.get ("transport", no response),
\* in raise_for_status ("http_status"), in _parse_jsonp ("parse"), in
\* _ensure_api_success ("api" or "expired"), or returns the products ("ok")
ResponseKinds == {"transport", "http_status", "parse", "api", "expired", "ok"}

\* the outcomes the `except Exception` clause of lines 495-498 handles
FailureKinds == {"transport", "http_status", "parse", "api"}

\* lines 386-391: one signed GET with the current token; the HTTP library stores
\* the cookie a response sets into the session jar
HttpExchange ==
    /\ pc = "fetch"
    /\ \E kind \in ResponseKinds, setCookie \in {None} \cup TokenCookieValues :
        /\ kind = "transport" => setCookie = None
        /\ resp' = kind
        /\ session' = IF setCookie = None THEN session
                      ELSE [session EXCEPT !.jar = JarSet(session.jar, TK, setCookie)]
    /\ pc' = "response"
    /\ requested' = requested \cup {<<kw, page>>}
    /\ pageFetches' = pageFetches + 1
    /\ slept' = FALSE
    /\ UNCHANGED <<envCookie, cfgVars, renewerVars, fnVars, cookie, token, my_cna, browser_refreshed_once, written,
                   kw, page, attempt, products, sink, renewLog, emptyPages, yielded, retryCause,
                   pageEnd>>

\* lines 454-466: _fetch_page returned the products of the response's item array;
\* `products` is assigned and the attempt loop left
HandleOk ==
    /\ pc = "response"
    /\ resp = "ok"
    /\ \E ps \in PageProducts[keywords[kw]] :
        /\ products' = Bound(ps)
        /\ yielded' = yielded \o Records(ps)
    /\ pageEnd' = "ok"
    /\ pc' = "process"
    /\ resp' = NoResp
    /\ UNCHANGED <<envCookie, cfgVars, renewerVars, fnVars, slept, cookie, token, my_cna, session, browser_refreshed_once,
                   written, kw, page, attempt, sink, renewLog, requested, emptyPages, pageFetches,
                   retryCause>>

\* a failed fetch is tried again instead of abandoning the page
HandleFailureRetries ==
    /\ pc = "response"
    /\ resp \in {"transport", "http_status", "parse", "api"}
    /\ IF attempt + 1 < 2
       THEN /\ attempt' = attempt + 1
            /\ pc' = "fetch"
            /\ UNCHANGED <<products, pageEnd>>
       ELSE /\ products' = [bound |-> TRUE, items |-> <<>>]
            /\ pageEnd' = "failed"
            /\ pc' = "process"
            /\ UNCHANGED attempt
    /\ resp' = "none"
    /\ UNCHANGED <<envCookie, cfgVars, renewerVars, fnVars, slept, cookie, token, my_cna, session, browser_refreshed_once,
                   written, kw, page, sink, renewLog, requested, emptyPages,
                   pageFetches, yielded, retryCause>>

\* lines 495-498: any other exception abandons the page
HandleFailure ==
    /\ pc = "response"
    /\ resp \in FailureKinds
    /\ products' = Bound(<<>>)
    /\ pageEnd' = "failed"
    /\ pc' = "process"
    /\ resp' = NoResp
    /\ UNCHANGED <<envCookie, cfgVars, renewerVars, fnVars, slept, cookie, token, my_cna, session, browser_refreshed_once,
                   written, kw, page, attempt, sink, renewLog, requested, emptyPages,
                   pageFetches, yielded, retryCause>>

\* a third iteration: `for attempt in range(3)`
ContinueAttempt_three_attempts(cause) ==
    IF attempt + 1 < 3
    THEN /\ attempt' = attempt + 1
         /\ pc' = "fetch"
         /\ retryCause' = cause
         /\ UNCHANGED pageEnd
    ELSE /\ pc' = "process"
         /\ pageEnd' = "fell_through"
         /\ UNCHANGED <<attempt, retryCause>>

\* `continue` inside `for attempt in range(2)`: the next attempt, or the end of the
\* loop with no `break`, which leaves `products` as it was
ContinueAttempt(cause) ==
    IF attempt + 1 < 2
    THEN /\ attempt' = attempt + 1
         /\ pc' = "fetch"
         /\ retryCause' = cause
         /\ UNCHANGED pageEnd
    ELSE /\ pc' = "process"
         /\ pageEnd' = "fell_through"
         /\ UNCHANGED <<attempt, retryCause>>

\* line 468-471: the token now in the jar, and the test for the local retry
jar_token == extract_token_from_cookie_value(JarGet(session.jar, TK))

\* the `attempt == 0` conjunct dropped: the retry also adopts a rotated token
local_refresh_any_attempt(refreshed) == refreshed # None /\ refreshed # token

local_refresh_applies(refreshed) == refreshed # None /\ refreshed # token /\ attempt = 0

\* the budget test dropped: renewal is tried at every unrecovered expiry
renewal_always_available == TRUE

\* `if not browser_refreshed_once`, line 476
renewal_available == ~browser_refreshed_once

\* `_extract_token_from_cookie(cookie) or token` of line 481
renewed_token(new_cookie) ==
    IF extract_token_from_cookie(new_cookie) # None
    THEN extract_token_from_cookie(new_cookie) ELSE token

\* lines 467-474: TokenExpired, and the jar holds a different token: retry with it
HandleExpiredLocalRefresh ==
    /\ pc = "response"
    /\ resp = "expired"
    /\ local_refresh_applies(jar_token)
    /\ token' = jar_token
    /\ ContinueAttempt("local")
    /\ resp' = NoResp
    /\ UNCHANGED <<envCookie, cfgVars, renewerVars, fnVars, slept, cookie, my_cna, session, browser_refreshed_once, written,
                   kw, page, products, sink, renewLog, requested, emptyPages, pageFetches,
                   yielded>>

\* lines 476-485: TokenExpired, no local retry, renewal not yet tried this run
HandleExpiredRenew ==
    /\ pc = "response"
    /\ resp = "expired"
    /\ ~local_refresh_applies(jar_token)
    /\ renewal_available
    /\ browser_refreshed_once' = TRUE
    /\ renewLog' = Append(renewLog, "token_expired")
    /\ resp' = NoResp
    /\ \E r \in RenewOutcomes :
        LET new_cookie == try_refresh_cookie(r)
        IN IF new_cookie # None
           THEN /\ envCookie' = new_cookie
                /\ cookie' = new_cookie
                /\ token' = renewed_token(new_cookie)
                /\ my_cna' = extract_cookie_value(new_cookie, CNA)
                /\ session' = build_session(session, new_cookie)
                /\ ContinueAttempt("renewal")
                /\ UNCHANGED products
           ELSE \* lines 487-494
                /\ products' = Bound(<<>>)
                /\ pageEnd' = "expired_abandoned"
                /\ pc' = "process"
                /\ UNCHANGED <<envCookie, cookie, token, my_cna, session, attempt, retryCause>>
    /\ UNCHANGED <<cfgVars, renewerVars, fnVars, slept, written, kw, page, sink, requested, emptyPages, pageFetches,
                   yielded>>

\* lines 487-494: TokenExpired with the renewal already spent: the page is abandoned
HandleExpiredAbandon ==
    /\ pc = "response"
    /\ resp = "expired"
    /\ ~local_refresh_applies(jar_token)
    /\ ~renewal_available
    /\ products' = Bound(<<>>)
    /\ pageEnd' = "expired_abandoned"
    /\ pc' = "process"
    /\ resp' = NoResp
    /\ UNCHANGED <<envCookie, cfgVars, renewerVars, fnVars, slept, cookie, token, my_cna, session, browser_refreshed_once,
                   written, kw, page, attempt, sink, renewLog, requested, emptyPages,
                   pageFetches, yielded, retryCause>>

\* TAOBAO_SLEEP_SECONDS at its default, line 431
sleep_seconds == 1

\* the loop of lines 507-576 over `products`: how many are written before the cap
\* test returns, and whether it returned
RECURSIVE write_products(_, _)
write_products(items, w) ==
    IF items = <<>> THEN [n |-> 0, returned |-> FALSE]
    ELSE IF reached_max_items(w) THEN [n |-> 0, returned |-> TRUE]
    ELSE LET r == write_products(Tail(items), w + 1)
         IN [n |-> r.n + 1, returned |-> r.returned]

\* lines 500-579: the empty test, then every product goes to the sink
ProcessPage ==
    /\ pc = "process"
    /\ IF ~products.bound
       THEN \* `if not products` reads a local that was never assigned
            /\ pc' = "raised"
            /\ UNCHANGED <<written, kw, page, sink, emptyPages, slept>>
       ELSE IF products.items = <<>>
       THEN /\ emptyPages' = emptyPages \cup {<<kw, page>>}
            /\ NextKeyword
            /\ UNCHANGED <<written, sink, slept>>
       ELSE LET w == write_products(products.items, written)
            IN /\ sink' = sink \o Records(SubSeq(products.items, 1, w.n))
               /\ written' = written + w.n
               /\ UNCHANGED emptyPages
               /\ IF w.returned
                  THEN /\ pc' = "done"
                       /\ UNCHANGED <<kw, page, slept>>
                  ELSE \* lines 578-579, then the next iteration
                       /\ slept' = (slept \/ sleep_seconds > 0)
                       /\ NextPage
    /\ UNCHANGED <<envCookie, cfgVars, renewerVars, fnVars, cookie, token, my_cna, session, browser_refreshed_once,
                   attempt, products, resp, renewLog, requested, pageFetches, yielded, retryCause,
                   pageEnd>>

Next ==
    \/ RunStart
    \/ PageTop
    \/ HttpExchange
    \/ HandleOk
    \/ HandleFailure
    \/ HandleExpiredLocalRefresh
    \/ HandleExpiredRenew
    \/ HandleExpiredAbandon
    \/ ProcessPage

Spec == Init /\ [][Next]_vars

(* ------------------------------------------------------------------ *)
(* Properties                                                          *)
(* ------------------------------------------------------------------ *)
\* calls of _try_refresh_cookie("token_expired") made so far
ExpiredRenewals == Cardinality({i \in DOMAIN renewLog : renewLog[i] = "token_expired"})

\* the products the successful response for the current page carried
pageYield == SelectSeq(yielded, LAMBDA r : r.kw = kw /\ r.page = page)

Min(a, b) == IF a <= b THEN a ELSE b

\* C1: escalation budget.  In one run the renewal escalation is invoked for
\* TokenExpired at most once; the first TokenExpired that the local refresh does not
\* recover (the jar holds no different token, or the page's local retry is already
\* used) invokes it exactly once in that step, and once it has been invoked no later
\* step (same or later keyword) invokes it.
C1_EscalationBudget ==
    [][ /\ ExpiredRenewals' <= 1
        /\ (pc = "response" /\ resp = "expired" /\ ExpiredRenewals = 0
              /\ (jar_token \in {None, token} \/ attempt # 0)) => ExpiredRenewals' = 1
        /\ ExpiredRenewals = 1 => ExpiredRenewals' = 1 ]_vars

\* a renewal succeeded during keyword 1 and the first attempt of keyword 2's first
\* page expired again: the page was abandoned with no second renewal
C1_Witness ==
    /\ ExpiredRenewals = 1
    /\ session.id = 2
    /\ pc = "process"
    /\ pageEnd = "expired_abandoned"
    /\ kw = 2
    /\ pageFetches = 1
    /\ requested = {<<1, 1>>, <<2, 1>>}

\* C2: whenever the renewer returns a cookie for a TokenExpired on page p of keyword
\* k, the next thing the client does is a further fetch of page p of keyword k.
C2_RetryAfterRenewal ==
    [][ (pc = "response" /\ resp = "expired" /\ session'.id # session.id)
          => (pc' = "fetch" /\ kw' = kw /\ page' = page) ]_vars

\* C3: no sequence of fetch outcomes makes run() raise.
C3_RunNeverRaises == pc # "raised"

\* C4: local token refresh.  A first-attempt TokenExpired with a different token in
\* the jar adopts that token and fetches the same page again, without a renewal and
\* with the session untouched; the retry never adopts a token locally again; and
\* when the retry succeeds its products go to the sink (up to the max_items cap,
\* at least one if there is any) with the renewal budget as it was.
C4_LocalRefreshRetry ==
    [][ /\ (pc = "response" /\ resp = "expired" /\ attempt = 0
              /\ jar_token # None /\ jar_token # token)
            => /\ token' = jar_token
               /\ pc' = "fetch" /\ attempt' = 1 /\ kw' = kw /\ page' = page
               /\ renewLog' = renewLog
               /\ browser_refreshed_once' = browser_refreshed_once
               /\ session' = session /\ cookie' = cookie
        /\ (pc = "response" /\ attempt = 1 /\ renewLog' = renewLog) => token' = token
        /\ (pc = "response" /\ resp = "ok" /\ retryCause = "local")
            => /\ pc' = "process"
               /\ products'.bound
               /\ Records(products'.items) = SelectSeq(yielded', LAMBDA r : r.kw = kw /\ r.page = page)
               /\ renewLog' = renewLog
               /\ browser_refreshed_once' = browser_refreshed_once
        /\ (pc = "process" /\ pageEnd = "ok" /\ retryCause = "local")
            => /\ sink' = sink \o SubSeq(pageYield, 1, Min(Len(pageYield), max_items - written))
               /\ pageYield # <<>> => Len(sink') > Len(sink)
               /\ renewLog' = renewLog
               /\ browser_refreshed_once' = browser_refreshed_once ]_vars

\* the retry after a local refresh succeeded, its records are in the sink and no
\* renewal was made
C4_Witness ==
    /\ pc \in {"page_top", "done"}
    /\ pageEnd = "ok"
    /\ retryCause = "local"
    /\ pageFetches = 2
    /\ sink # <<>>
    /\ sink[Len(sink)] = yielded[Len(yielded)]
    /\ renewLog = <<>>
    /\ ~browser_refreshed_once

\* C5: the records of one page that reach the sink have pairwise distinct detail URLs.
C5_PageRecordsDistinct ==
    \A i \in DOMAIN sink, j \in DOMAIN sink :
        (i < j /\ sink[i].kw = sink[j].kw /\ sink[i].page = sink[j].page)
            => sink[i].detail_url # sink[j].detail_url

\* C6: once a page of a keyword yields zero records, no higher page of that keyword
\* is requested, and the records emitted for the keyword are exactly those the
\* keyword's preceding pages yielded.
C6_StopOnEmptyPage ==
    \A e \in emptyPages :
        /\ \A r \in requested : r[1] = e[1] => r[2] <= e[2]
        /\ SelectSeq(sink, LAMBDA x : x.kw = e[1]) = SelectSeq(yielded, LAMBDA x : x.kw = e[1])

\* C7: the sink never holds more than max_items records (written counts them), and
\* no page is fetched once the count has reached max_items.
C7_MaxItemsCap ==
    /\ Len(sink) <= max_items
    /\ written = Len(sink)
    /\ pc \in {"fetch", "response"} => written < max_items

\* the cap cut a page short and ended the run with a keyword still to go
C7_Witness ==
    /\ pc = "done"
    /\ written = max_items
    /\ Len(yielded) > Len(sink)
    /\ kw < Len(keywords)

\* C8: a fetch that fails with a transport, HTTP status, parse or API error is not
\* retried and assigns the empty product list; handling it leaves the sink, the
\* renewal budget, the token, the cookie and the session as they were; a page whose
\* first attempt failed has had exactly one HTTP request; and the page is then left
\* without emitting a record.
C8_FailedFetchAbandoned ==
    [][ /\ (pc = "response" /\ resp \in {"transport", "http_status", "parse", "api"})
            => /\ pc' = "process"
               /\ products' = Bound(<<>>)
               /\ sink' = sink /\ written' = written
               /\ requested' = requested /\ pageFetches' = pageFetches
               /\ browser_refreshed_once' = browser_refreshed_once
               /\ renewLog' = renewLog
               /\ token' = token /\ cookie' = cookie /\ my_cna' = my_cna
               /\ session' = session /\ envCookie' = envCookie
        /\ (pageEnd' = "failed" /\ retryCause' = "none") => pageFetches' = 1
        /\ (pc = "process" /\ pageEnd = "failed")
            => /\ sink' = sink /\ written' = written
               /\ pc' \in {"page_top", "done"}
               /\ pc' = "page_top" => <<kw', page'>> # <<kw, page>>
               /\ browser_refreshed_once' = browser_refreshed_once
               /\ renewLog' = renewLog
               /\ token' = token /\ cookie' = cookie /\ session' = session ]_vars

\* the only request for page 1 of keyword 1 failed and the run went on to keyword 2
\* with nothing emitted and no renewal made
C8_Witness ==
    /\ pc = "page_top"
    /\ pageEnd = "failed"
    /\ pageFetches = 1
    /\ kw = 2
    /\ requested = {<<1, 1>>}
    /\ sink = <<>>
    /\ renewLog = <<>>

\* C9: a TokenExpired that neither the local refresh nor a renewal can recover (the
\* renewal fails now, or was spent earlier) abandons the page: nothing is emitted
\* for it, no further page of the keyword is requested, and the run goes on to fetch
\* page 1 of the next keyword, or returns when there is none.
C9_UnrecoverableExpiry ==
    [][ /\ (pc = "response" /\ resp = "expired" /\ ~local_refresh_applies(jar_token)
              /\ (browser_refreshed_once \/ (renewLog' # renewLog /\ session' = session)))
            => /\ pc' = "process"
               /\ pageEnd' = "expired_abandoned"
               /\ products' = Bound(<<>>)
               /\ sink' = sink
        /\ (pc = "process" /\ pageEnd = "expired_abandoned")
            => /\ sink' = sink
               /\ requested' = requested
               /\ IF kw < Len(keywords)
                  THEN pc' = "page_top" /\ kw' = kw + 1 /\ page' = 1
                  ELSE pc' = "done"
        /\ (pc = "page_top" /\ pageEnd = "expired_abandoned")
            => /\ pc' = "fetch"
               /\ page' = 1 /\ kw' = kw /\ attempt' = 0 ]_vars

\* keyword 1 was abandoned on an unrecoverable TokenExpired of its page 1 and the
\* run is about to fetch page 1 of keyword 2
C9_Witness ==
    /\ pc = "page_top"
    /\ pageEnd = "expired_abandoned"
    /\ kw = 2 /\ page = 1
    /\ requested = {<<1, 1>>}
    /\ sink = <<>>

\* C10: every request is signed with the token that the `_m_h5_tk` cookie of the
\* session jar holds at that moment.
C10_SignedWithJarToken == pc = "fetch" => token = jar_token

\* the cold start ended the run: the environment still holds no cookie with a token
ColdStartFailed == pc # "start" /\ extract_token_from_cookie(Strip(envCookie)) = None

\* C11: cold start.  With no seed cookie the renewal escalation is called first of
\* all, and a request is only ever issued after the renewer really ran and gave a
\* cookie; no request is issued while the run holds no non-empty token taken from
\* a cookie string; and when the cold-start renewal yields no cookie with a token
\* the run ends with zero requests and zero records.
C11_ColdStart ==
    /\ (Strip(seedCookie) = <<>> /\ pc # "start")
        => (renewLog # <<>> /\ renewLog[1] = "cookie_missing")
    /\ (Strip(seedCookie) = <<>> /\ requested # {})
        => (auto_refresh /\ extract_token_from_cookie(envCookie) # None)
    /\ (requested # {} \/ pc \in {"fetch", "response"})
        => (cookie # <<>> /\ token # None /\ token # <<>>)
    /\ ColdStartFailed => (pc = "done" /\ requested = {} /\ sink = <<>> /\ written = 0)

\* the run started with no seed cookie, the renewer gave one and records were emitted
C11_Witness ==
    /\ Strip(seedCookie) = <<>>
    /\ renewLog = <<"cookie_missing">>
    /\ requested # {}
    /\ sink # <<>>

\* C12: a finished run ended in the fatal, run-aborting error outcome exactly when it
\* had no seed cookie at all, the renewal escalation failed and nothing was
\* collected; every other run ended in a normal return.
C12_FatalOnlyOnColdStartFailure ==
    pc \in {"done", "raised"}
        => ((pc = "raised")
              <=> (Strip(seedCookie) = <<>> /\ Strip(envCookie) = <<>> /\ sink = <<>>))

\* interactive renewer executions of this run: every _try_refresh_cookie call
\* starts one when auto refresh is enabled, and none does otherwise
RenewerInvocations == IF auto_refresh THEN Len(renewLog) ELSE 0

\* C13: one run() invokes the interactive renewer at most once, counting the
\* cold-start invocations (cookie missing, token missing) and the one on token expiry.
C13_RenewalBudget == RenewerInvocations <= 1


\* C25: with a positive sleep interval the client sleeps between the HTTP request
\* for one page and the first HTTP request for the next page of the run (the next
\* page of the keyword, or page 1 of the next keyword).
C25_SleepBetweenPages ==
    (pc = "fetch" /\ attempt = 0 /\ requested # {} /\ sleep_seconds > 0) => slept


\* text holds a tag: "<", at least one character that is not ">", then ">"
HasTag(text) ==
    \E a \in DOMAIN text, b \in DOMAIN text :
        /\ text[a] = "<"
        /\ text[b] = ">"
        /\ b > a + 1
        /\ \A m \in (a + 1)..(b - 1) : text[m] # ">"

\* source items that are to be skipped: no title once the markup is gone, or
\* neither a URL field a URL can be made of nor an item id
IsSkippable(src) ==
    \/ Strip(RemoveTags(src.title)) = <<>>
    \/ /\ ResolveUrlField(src.itemUrl) = None
       /\ ResolveUrlField(src.url) = None
       /\ ResolveUrlField(src.detail_url) = None
       /\ Strip(src.item_id) = <<>>
       /\ Strip(src.itemId) = <<>>

\* the title and URL a record of a skippable source item would carry
SkippedRecords ==
    { [title |-> strip_html(src.title), detail_url |-> normalize_detail_url(src)] :
        src \in {it \in SourceItems : IsSkippable(it)} }

\* C29: every record handed to the sink has a title that is not empty and holds no
\* markup, and an absolute detail URL (http:// or https://); no record in the sink
\* is that of a source item with an empty title or with neither a usable URL field
\* nor an item id.
C29_SinkRecordsValid ==
    \A i \in DOMAIN sink :
        /\ sink[i].title # <<>>
        /\ ~HasTag(sink[i].title)
        /\ sink[i].detail_url # None
        /\ \/ StartsWith(sink[i].detail_url, <<"h", "t", "t", "p", ":", "/", "/">>)
           \/ StartsWith(sink[i].detail_url, <<"h", "t", "t", "p", "s", ":", "/", "/">>)
        /\ [title |-> sink[i].title, detail_url |-> sink[i].detail_url] \notin SkippedRecords

\* two records are in the sink, of a page whose array can hold skippable items
C29_Witness ==
    /\ Len(sink) >= 2
    /\ SkippedRecords # {}
    /\ sink[1].title = <<"t">>
    /\ sink[1].detail_url = HttpsScheme \o <<"a">>


\* C30: every record in the sink was extracted from a successful response to a
\* request for the page and keyword it was emitted under, and the attempt loop
\* never ends with `products` unassigned or left over from an earlier page.
C30_RecordsFromOwnPage ==
    /\ pc = "process" =>
        /\ products.bound
        /\ pageEnd # "fell_through"
        /\ products.items # <<>> => Records(products.items) = pageYield
    /\ \A i \in DOMAIN sink : \E j \in DOMAIN yielded : yielded[j] = sink[i]

\* C31: no (keyword, page) pair has more than two HTTP requests in a run: the
\* requests of the page being handled number at most two, they are the only ones
\* ever made for that pair, and a page whose iteration starts has had none.
C31_AtMostTwoRequests ==
    /\ pageFetches <= 2
    /\ pc = "page_top" => <<kw, page>> \notin requested
    /\ pc \in {"fetch", "response", "process"}
        => (pageFetches = 0 <=> <<kw, page>> \notin requested)

\* a page had a local token refresh, then a renewal that returned a cookie, and its
\* attempt loop ended after two requests
C31_Witness ==
    /\ pc = "process"
    /\ pageFetches = 2
    /\ retryCause = "local"
    /\ ExpiredRenewals = 1
    /\ session.id = 2
    /\ pageEnd = "fell_through"

\* how the attempt loop ends when the page is abandoned: lines 495-498, lines 487-494
AbandonedEnds == {"failed", "expired_abandoned"}

\* C32: an abandoned page is handled as an empty page.  Its product list is the
\* empty list; when it has been left the run is at the first page of the next
\* keyword with no request made for it yet, or has returned after the last keyword;
\* and no page of a keyword above one that ended the keyword is ever requested.
C32_FailedPageEndsKeyword ==
    /\ (pc = "process" /\ pageEnd \in AbandonedEnds) => products = Bound(<<>>)
    /\ (pc # "process" /\ pageEnd \in AbandonedEnds)
        => IF pc = "done"
           THEN kw = Len(keywords) /\ <<kw, page>> \in emptyPages
           ELSE /\ pc = "page_top"
                /\ kw > 1 /\ page = 1
                /\ <<kw, page>> \notin requested
                /\ \E p \in 1..max_pages : <<kw - 1, p>> \in emptyPages
    /\ \A e \in emptyPages : \A r \in requested : r[1] = e[1] => r[2] <= e[2]

\* page 2 of 3 of keyword 1 failed after page 1 gave records: page 3 was never
\* requested and the run is at page 1 of keyword 2
C32_Witness ==
    /\ pc = "page_top"
    /\ pageEnd = "failed"
    /\ max_pages = 3
    /\ kw = 2 /\ page = 1
    /\ requested = {<<1, 1>>, <<1, 2>>}
    /\ emptyPages = {<<1, 2>>}
    /\ sink # <<>>

\* C33: the pages requested for each keyword are 1, 2, ..., n with n <= max_pages,
\* none skipped; every request made so far is at or below the current position
\* (keyword, page) and the first request of a page is for a page not requested
\* before, so requests go up page by page and keyword by keyword; and every keyword
\* before the current one had its first page requested.
C33_SequentialPrefix ==
    /\ max_pages >= 1
    /\ \A r \in requested :
        /\ r[1] \in 1..Len(keywords)
        /\ r[2] \in 1..max_pages
        /\ \A q \in 1..r[2] : <<r[1], q>> \in requested
        /\ r[1] < kw \/ (r[1] = kw /\ r[2] <= page)
    /\ (pc = "fetch" /\ attempt = 0) => <<kw, page>> \notin requested
    /\ pc \in {"fetch", "response", "process"}
        => /\ \A k \in 1..(kw - 1) : <<k, 1>> \in requested
           /\ \A q \in 1..(page - 1) : <<kw, q>> \in requested

\* keyword 1 stopped after two of three pages and the second page of keyword 2 is
\* about to be requested
C33_Witness ==
    /\ pc = "fetch"
    /\ max_pages = 3
    /\ kw = 2 /\ page = 2
    /\ requested = {<<1, 1>>, <<1, 2>>, <<2, 1>>}

\* C35: when a TokenExpired that the local refresh does not recover meets an
\* unspent renewal budget and the renewal is disabled or fails, the step spends the
\* budget and leaves the cookie string, the token, the client id, the session and
\* the environment's cookie as they were; the page gets the empty product list and
\* no further request, and the run then moves to another page or returns.
C35_FailedRenewalFrame ==
    [][ /\ (pc = "response" /\ resp = "expired" /\ ~local_refresh_applies(jar_token)
              /\ ~browser_refreshed_once
              /\ (~auto_refresh \/ pageEnd' = "expired_abandoned"))
            => /\ browser_refreshed_once'
               /\ renewLog' = Append(renewLog, "token_expired")
               /\ cookie' = cookie /\ token' = token /\ my_cna' = my_cna
               /\ session' = session /\ envCookie' = envCookie
               /\ pc' = "process"
               /\ pageEnd' = "expired_abandoned"
               /\ products' = Bound(<<>>)
               /\ requested' = requested /\ pageFetches' = pageFetches
        /\ (pc = "process" /\ pageEnd = "expired_abandoned")
            => /\ requested' = requested
               /\ pc' \in {"page_top", "done"}
               /\ pc' = "page_top" => <<kw', page'>> # <<kw, page>>
               /\ cookie' = cookie /\ token' = token /\ my_cna' = my_cna
               /\ session' = session /\ envCookie' = envCookie ]_vars

\* with the renewal switched off, the first request of the run expired: the budget
\* is spent, the session is the one built at the start, and the page was left
\* after its single request
C35_Witness ==
    /\ ~auto_refresh
    /\ browser_refreshed_once
    /\ renewLog = <<"token_expired">>
    /\ session.id = 1
    /\ cookie = Strip(seedCookie)
    /\ pageEnd = "expired_abandoned"
    /\ pageFetches = 1
    /\ requested = {<<1, 1>>}
    /\ pc \in {"page_top", "done"}

(* ------------------------------------------------------------------ *)
(* The cookie renewer (jobs/refresh_taobao_cookie.py): helpers         *)
(* ------------------------------------------------------------------ *)
MaxCookies == 3
MaxFileLines == 2
MaxJitter == 1

COOKIE2 == <<"c", "o", "o", "k", "i", "e", "2">>
TBTOKEN == <<"_", "t", "b", "_", "t", "o", "k", "e", "n", "_">>

TAOBAO_COOKIE_REQUIRED_KEYS == <<TK, TKENC>>

\* the priority order with cna moved to the front
TAOBAO_COOKIE_PRIORITY_cna_first == <<CNA, TK, TKENC, COOKIE2, <<"t">>, TBTOKEN>>

TAOBAO_COOKIE_PRIORITY == <<TK, TKENC, COOKIE2, <<"t">>, TBTOKEN, CNA>>

\* the characters of the model's cookie names, in code point order
CodePointOrder ==
    <<"2", "5", "B", "_", "a", "b", "c", "e", "h", "i", "k", "m", "n", "o", "t", "z">>

CodePoint(c) == CHOOSE i \in 1..Len(CodePointOrder) : CodePointOrder[i] = c

\* a < b for Python strings
RECURSIVE LexLess(_, _)
LexLess(a, b) ==
    IF a = <<>> THEN b # <<>>
    ELSE IF b = <<>> THEN FALSE
    ELSE IF Head(a) = Head(b) THEN LexLess(Tail(a), Tail(b))
    ELSE CodePoint(Head(a)) < CodePoint(Head(b))

\* sorted(S) for a set of strings
RECURSIVE Sorted(_)
Sorted(S) ==
    IF S = {} THEN <<>>
    ELSE LET m == CHOOSE x \in S : \A y \in S \ {x} : LexLess(x, y)
         IN <<m>> \o Sorted(S \ {m})

\* the list `keys` of _build_cookie_string
cookie_string_keys(cookie_map) ==
    LET first == SelectSeq(TAOBAO_COOKIE_PRIORITY, LAMBDA name : name \in DOMAIN cookie_map)
        seen == {first[i] : i \in DOMAIN first}
    IN first \o SelectSeq(Sorted(DOMAIN cookie_map), LAMBDA name : name \notin seen)

build_cookie_string(cookie_map) ==
    LET keys == cookie_string_keys(cookie_map)
    IN JoinCookie([i \in 1..Len(keys) |-> Pair(keys[i], cookie_map[keys[i]])])

\* str.lower() on the characters of the model's cookie domains
LowerChar(c) ==
    CASE c = "T" -> "t" [] c = "A" -> "a" [] c = "O" -> "o" [] c = "B" -> "b"
      [] c = "M" -> "m" [] c = "L" -> "l" [] c = "C" -> "c" [] OTHER -> c

Lower(s) == [i \in 1..Len(s) |-> LowerChar(s[i])]

\* `sub in s`
Contains(s, sub) ==
    \E i \in 1..(Len(s) - Len(sub) + 1) : SubSeq(s, i, i + Len(sub) - 1) = sub

TaobaoCom == <<"t", "a", "o", "b", "a", "o", ".", "c", "o", "m">>
TmallCom == <<"t", "m", "a", "l", "l", ".", "c", "o", "m">>

\* _cookie_items_from_page: the named, valued cookies of the Taobao and Tmall domains
RECURSIVE cookie_items_from_page(_)
cookie_items_from_page(raw) ==
    IF raw = <<>> THEN <<>>
    ELSE LET item == Head(raw)
             name == Strip(item.name)
             value == Strip(item.value)
             domain == Lower(Strip(item.domain))
             rest == cookie_items_from_page(Tail(raw))
         IN IF name = <<>> \/ value = <<>> THEN rest
            ELSE IF ~Contains(domain, TaobaoCom) /\ ~Contains(domain, TmallCom) THEN rest
            ELSE <<[name |-> name, value |-> value, domain |-> domain]>> \o rest

\* _cookie_items_from_playwright: the same filter over page.context.cookies()
cookie_items_from_playwright(raw) == cookie_items_from_page(raw)

\* _cookie_map: the last row of a name wins
RECURSIVE cookie_map_into(_, _)
cookie_map_into(merged, rows) ==
    IF rows = <<>> THEN merged
    ELSE cookie_map_into(JarSet(merged, Head(rows).name, Head(rows).value), Tail(rows))

cookie_map_of(rows) == cookie_map_into(EmptyJar, rows)

\* one required cookie is enough
has_any_required_cookie(cookie_map) ==
    \E i \in DOMAIN TAOBAO_COOKIE_REQUIRED_KEYS :
        JarGet(cookie_map, TAOBAO_COOKIE_REQUIRED_KEYS[i]) # <<>>

has_required_cookie(cookie_map) ==
    \A i \in DOMAIN TAOBAO_COOKIE_REQUIRED_KEYS :
        JarGet(cookie_map, TAOBAO_COOKIE_REQUIRED_KEYS[i]) # <<>>

quote_env_value(value) ==
    LET escaped == ReplaceChar(ReplaceChar(value, "\\", <<"\\", "\\">>), "\"", <<"\\", "\"">>)
    IN <<"\"">> \o escaped \o <<"\"">>

\* str.splitlines() for "\n" line ends: no empty last line for a final line end
splitlines(text) ==
    LET parts == Split(text, "\n")
    IN IF parts[Len(parts)] = <<>> THEN SubSeq(parts, 1, Len(parts) - 1) ELSE parts

\* "\n".join(lines)
RECURSIVE JoinLines(_)
JoinLines(lines) ==
    IF lines = <<>> THEN <<>>
    ELSE IF Len(lines) = 1 THEN lines[1]
    ELSE lines[1] \o <<"\n">> \o JoinLines(Tail(lines))

\* re.compile(rf"^\s*{re.escape(key)}\s*=").match(line)
assign_match(line, key) ==
    LET l == LStrip(line)
    IN /\ StartsWith(l, key)
       /\ LET r == LStrip(SubSeq(l, Len(key) + 1, Len(l)))
          IN r # <<>> /\ Head(r) = "="

new_env_line(key, value) == key \o <<"=">> \o quote_env_value(value)

\* the list `out` of _upsert_env_key
upsert_out(lines, key, value) ==
    LET replaced == [i \in 1..Len(lines) |->
                        IF assign_match(lines[i], key) THEN new_env_line(key, value)
                        ELSE lines[i]]
        found == \E i \in 1..Len(lines) : assign_match(lines[i], key)
    IN IF found THEN replaced
       ELSE (IF replaced # <<>> /\ Strip(replaced[Len(replaced)]) # <<>>
             THEN Append(replaced, <<>>) ELSE replaced)
            \o <<new_env_line(key, value)>>

\* _upsert_env_key: the text written to the file; text = None when it does not exist
upsert_env_key(text, key, value) ==
    LET lines == IF text = None THEN <<>> ELSE splitlines(text)
    IN RStrip(JoinLines(upsert_out(lines, key, value))) \o <<"\n">>


(* ------------------------------------------------------------------ *)
(* The search client: response body, envelope, signature, prices       *)
(* ------------------------------------------------------------------ *)
\* The JSON decoder on texts of objects, arrays, strings without escapes and
\* unsigned integers.  Each parser takes the position of the first character of
\* what it parses and gives the position after it, or 0 when the text is no JSON.
RECURSIVE JsonValue(_, _)
RECURSIVE JsonMembers(_, _)
RECURSIVE JsonElements(_, _)

JsonString(s, i) ==
    IF i > Len(s) \/ s[i] # "\"" THEN 0
    ELSE LET close == IndexOf(SubSeq(s, i + 1, Len(s)), "\"")
         IN IF close = 0 THEN 0 ELSE i + close + 1

\* "key": value, then "," and the next member, or "}"
JsonMembers(s, i) ==
    LET k == JsonString(s, i)
        colon == IF k = 0 THEN 0 ELSE SkipWs(s, k)
        v == IF colon = 0 \/ colon > Len(s) \/ s[colon] # ":" THEN 0
             ELSE JsonValue(s, SkipWs(s, colon + 1))
        next == IF v = 0 THEN 0 ELSE SkipWs(s, v)
    IN IF next = 0 \/ next > Len(s) THEN 0
       ELSE IF s[next] = "}" THEN next + 1
       ELSE IF s[next] = "," THEN JsonMembers(s, SkipWs(s, next + 1))
       ELSE 0

\* value, then "," and the next element, or "]"
JsonElements(s, i) ==
    LET v == JsonValue(s, i)
        next == IF v = 0 THEN 0 ELSE SkipWs(s, v)
    IN IF next = 0 \/ next > Len(s) THEN 0
       ELSE IF s[next] = "]" THEN next + 1
       ELSE IF s[next] = "," THEN JsonElements(s, SkipWs(s, next + 1))
       ELSE 0

JsonValue(s, i) ==
    IF i > Len(s) THEN 0
    ELSE IF s[i] = "{"
         THEN LET k == SkipWs(s, i + 1)
              IN IF k <= Len(s) /\ s[k] = "}" THEN k + 1 ELSE JsonMembers(s, k)
    ELSE IF s[i] = "["
         THEN LET k == SkipWs(s, i + 1)
              IN IF k <= Len(s) /\ s[k] = "]" THEN k + 1 ELSE JsonElements(s, k)
    ELSE IF s[i] = "\"" THEN JsonString(s, i)
    ELSE IF IsDigit(s[i]) THEN SkipDigits(s, i)
    ELSE 0

\* the decoded value, written as its JSON text without white space between tokens
RECURSIVE JsonCompact(_, _)
JsonCompact(s, inString) ==
    IF s = <<>> THEN <<>>
    ELSE IF Head(s) = "\"" THEN <<"\"">> \o JsonCompact(Tail(s), ~inString)
    ELSE IF IsSpace(Head(s)) /\ ~inString THEN JsonCompact(Tail(s), inString)
    ELSE <<Head(s)>> \o JsonCompact(Tail(s), inString)

JSONDecodeError == <<"JSONDecodeError">>
RuntimeError == <<"RuntimeError">>

\* json.loads(s): the value of the one JSON text that s holds between white space
json_loads(s) ==
    LET end == JsonValue(s, SkipWs(s, 1))
    IN IF end = 0 \/ SkipWs(s, end) # Len(s) + 1 THEN JSONDecodeError
       ELSE JsonCompact(s, FALSE)

\* re.match(rf"^\s*{callback}\((.*)\)\s*;?\s*$", body, re.DOTALL): group 1, or None.
\* The greedy (.*) ends before the last ")" of the body, and what follows that ")"
\* has to be white space with at most one ";".
jsonp_match(body, callback) ==
    LET b == LStrip(body)
        open == callback \o <<"(">>
        rest == SubSeq(b, Len(open) + 1, Len(b))
        last == IF IndexOf(rest, ")") = 0 THEN 0
                ELSE CHOOSE k \in 1..Len(rest) :
                        rest[k] = ")" /\ \A m \in (k + 1)..Len(rest) : rest[m] # ")"
        tail == Strip(SubSeq(rest, last + 1, Len(rest)))
    IN IF StartsWith(b, open) /\ last # 0 /\ tail \in {<<>>, <<";">>}
       THEN SubSeq(rest, 1, last - 1)
       ELSE None

\* the wrapper is accepted under any callback name
parse_jsonp_any_callback(text, callback) ==
    LET body == Strip(text)
        name == SubSeq(body, 1, IndexOf(body, "(") - 1)
    IN IF body = <<>> THEN RuntimeError
       ELSE IF StartsWith(body, <<"{">>) THEN json_loads(body)
       ELSE IF IndexOf(body, "(") = 0 \/ jsonp_match(body, name) = None THEN RuntimeError
       ELSE json_loads(jsonp_match(body, name))

\* _parse_jsonp: the decoded value, or the exception it raises
parse_jsonp(text, callback) ==
    LET body == Strip(text)
    IN IF body = <<>> THEN RuntimeError
       ELSE IF StartsWith(body, <<"{">>) THEN json_loads(body)
       ELSE IF jsonp_match(body, callback) = None THEN RuntimeError
       ELSE json_loads(jsonp_match(body, callback))


DigitChars == <<"0", "1", "2", "3", "4", "5", "6", "7", "8", "9">>

\* str(n) for an int n >= 0
RECURSIVE IntToStr(_)
IntToStr(n) ==
    IF n < 10 THEN <<DigitChars[n + 1]>>
    ELSE IntToStr(n \div 10) \o <<DigitChars[(n - 10 * (n \div 10)) + 1]>>

SUCCESS == <<"S", "U", "C", "C", "E", "S", "S">>
FAIL_SYS_TOKEN_EXOIRED == <<"F", "A", "I", "L", "_", "S", "Y", "S", "_", "T", "O", "K", "E", "N", "_", "E", "X", "O", "I", "R", "E", "D">>
TokenExpiredError == <<"TokenExpiredError">>

\* payload.get("ret") as [kind, items, text, num]: a list of strings, a string, an
\* int, null, or no "ret" key
RetList(items) == [kind |-> "list", items |-> items, text |-> <<>>, num |-> 0]
RetStr(text) == [kind |-> "str", items |-> <<>>, text |-> text, num |-> 0]
RetInt(n) == [kind |-> "int", items |-> <<>>, text |-> <<>>, num |-> n]
RetNull == [kind |-> "null", items |-> <<>>, text |-> <<>>, num |-> 0]
RetMissing == [kind |-> "missing", items |-> <<>>, text |-> <<>>, num |-> 0]

\* `summary` of lines 241-244
ret_summary(ret) ==
    IF ret.kind = "list" THEN JoinWith(ret.items, <<" ", "|", " ">>)
    ELSE IF ret.kind = "str" THEN ret.text
    ELSE IF ret.kind = "int" /\ ret.num # 0 THEN IntToStr(ret.num)
    ELSE <<>>

\* the expiry marker is looked for before the success marker
ensure_api_success_expiry_first(payload) ==
    LET summary == ret_summary(payload.ret)
    IN IF Contains(summary, FAIL_SYS_TOKEN_EXOIRED) THEN TokenExpiredError
       ELSE IF Contains(summary, SUCCESS) THEN None
       ELSE RuntimeError

\* _ensure_api_success: None when it returns, or the exception it raises
ensure_api_success(payload) ==
    LET summary == ret_summary(payload.ret)
    IN IF Contains(summary, SUCCESS) THEN None
       ELSE IF Contains(summary, FAIL_SYS_TOKEN_EXOIRED) THEN TokenExpiredError
       ELSE RuntimeError


\* the application key left out of the signed string
sign_preimage_without_app_key(token_arg, timestamp_ms, app_key, payload) ==
    token_arg \o <<"&">> \o IntToStr(timestamp_ms) \o <<"&">> \o payload

\* `raw` of line 220: f"{token}&{timestamp_ms}&{app_key}&{payload}"
sign_preimage(token_arg, timestamp_ms, app_key, payload) ==
    token_arg \o <<"&">> \o IntToStr(timestamp_ms) \o <<"&">> \o app_key \o <<"&">> \o payload

\* hashlib.md5(raw).hexdigest(): the digest is written as the text it is the digest
\* of, so equal texts have equal digests and nothing else is said about digests
md5_hexdigest(raw) == <<"md5">> \o raw

\* _make_sign
make_sign(token_arg, timestamp_ms, app_key, payload) ==
    md5_hexdigest(sign_preimage(token_arg, timestamp_ms, app_key, payload))

DEFAULT_APP_KEY == <<"1", "2", "5", "7", "4", "4", "7", "8">>
DEFAULT_APP_ID == <<"3", "4", "3", "8", "5">>

\* quote(keyword, safe=""), line 205: every character that is not a letter, a
\* digit or one of "_.-~" is written as "%" and its code; the characters coded
\* here are "%", " ", "&", "/" and the double quote
quote(s) ==
    LET s1 == ReplaceChar(s, "%", <<"%", "2", "5">>)
        s2 == ReplaceChar(s1, " ", <<"%", "2", "0">>)
        s3 == ReplaceChar(s2, "&", <<"%", "2", "6">>)
        s4 == ReplaceChar(s3, "/", <<"%", "2", "F">>)
    IN ReplaceChar(s4, "\"", <<"%", "2", "2">>)

\* json.dumps of a str of printable ASCII characters
json_dumps_str(s) ==
    <<"\"">> \o ReplaceChar(ReplaceChar(s, "\\", <<"\\", "\\">>), "\"", <<"\\", "\"">>) \o <<"\"">>

\* json.dumps(_build_ep_params(...), separators=(",", ":")), lines 200-208 and 214.
\* Of the keys, those whose values differ between requests are kept: page, q and
\* myCNA (the keys of BASE_EP_PARAMS, n, pageSize and userAgent are fixed in a run)
ep_params_json(keyword, page_arg, my_cna_arg) ==
    <<"{", "\"", "p", "a", "g", "e", "\"", ":">> \o IntToStr(page_arg)
        \o <<",", "\"", "q", "\"", ":">> \o json_dumps_str(quote(keyword))
        \o <<",", "\"", "m", "y", "C", "N", "A", "\"", ":">> \o json_dumps_str(my_cna_arg) \o <<"}">>

\* _build_data_payload: the parameters travel as a JSON string inside the JSON text
build_data_payload(app_id, ep_json) ==
    <<"{", "\"", "a", "p", "p", "I", "d", "\"", ":">> \o json_dumps_str(app_id) \o <<",", "\"", "p", "a", "r", "a", "m", "s", "\"", ":">> \o json_dumps_str(ep_json) \o <<"}">>

MTOPJSONP == <<"m", "t", "o", "p", "j", "s", "o", "n", "p">>

\* line 360: f"mtopjsonp{(timestamp_ms % 100000) + page}"
callback_name(timestamp_ms, page_arg) == MTOPJSONP \o IntToStr((timestamp_ms % 100000) + page_arg)

\* the `t` parameter comes from a second reading of the clock, one millisecond on
fetch_page_request_rereads_clock(token_arg, app_key, app_id, keyword, page_arg, my_cna_arg, timestamp_ms) ==
    LET data_payload == build_data_payload(app_id, ep_params_json(keyword, page_arg, my_cna_arg))
    IN [appKey |-> app_key,
        t |-> IntToStr(timestamp_ms + 1),
        sign |-> make_sign(token_arg, timestamp_ms, app_key, data_payload),
        callback |-> callback_name(timestamp_ms, page_arg),
        data |-> data_payload]

\* lines 359-384 of _fetch_page: the parameters of the request that vary, built
\* from one reading of the clock
fetch_page_request(token_arg, app_key, app_id, keyword, page_arg, my_cna_arg, timestamp_ms) ==
    LET data_payload == build_data_payload(app_id, ep_params_json(keyword, page_arg, my_cna_arg))
    IN [appKey |-> app_key,
        t |-> IntToStr(timestamp_ms),
        sign |-> make_sign(token_arg, timestamp_ms, app_key, data_payload),
        callback |-> callback_name(timestamp_ms, page_arg),
        data |-> data_payload]



(* ------------------------------------------------------------------ *)
(* The helpers applied to bounded inputs                               *)
(* ------------------------------------------------------------------ *)
\* no run() is in progress
RunParked ==
    /\ auto_refresh = FALSE
    /\ keywords = <<1>>
    /\ max_pages = 1
    /\ max_items = 1
    /\ seedCookie = <<>>
    /\ pc = "idle"
    /\ cookie = <<>>
    /\ token = None
    /\ my_cna = <<>>
    /\ session = [id |-> 0, jar |-> EmptyJar]
    /\ browser_refreshed_once = FALSE
    /\ written = 0
    /\ kw = 1
    /\ page = 1
    /\ attempt = 0
    /\ products = UnboundProducts
    /\ resp = NoResp
    /\ sink = <<>>
    /\ renewLog = <<>>
    /\ requested = {}
    /\ emptyPages = {}
    /\ pageFetches = 0
    /\ yielded = <<>>
    /\ retryCause = "none"
    /\ pageEnd = "none"
    /\ slept = FALSE

\* cookie names a browser jar can hold: the well-known ones and three others
CookieNames == {TAOBAO_COOKIE_PRIORITY[i] : i \in DOMAIN TAOBAO_COOKIE_PRIORITY}
                   \cup {<<"B">>, <<"a">>, <<"z">>}

\* values of browser cookies as _cookie_items_from_page keeps them: stripped, not
\* empty, and without ";" (a cookie value cannot hold one); "=" and inner blanks occur
CookieValues == {<<"v", "1">>, <<"a", "=", "b", " ", "c">>}

\* the cookie maps of at most MaxCookies cookies
CookieMaps ==
    UNION { [S -> CookieValues] : S \in {T \in SUBSET CookieNames : Cardinality(T) <= MaxCookies} }

\* lines of a .env file: assignments of K (plain, and with white space), of KX and
\* of O (with a trailing blank), a comment, an empty and a blank line
EnvLines ==
    { <<"K", "=", "1">>, <<" ", "K", " ", "=", "2">>, <<"K", "X", "=", "3">>,
      <<"O", "=", "1", " ">>, <<"#", "c">>, <<>>, <<" ">> }

\* the texts of .env files of at most MaxFileLines lines, with and without a final
\* line end; None is the file that does not exist
EnvTexts ==
    {None} \cup
    { JoinLines(ls) \o end :
        ls \in UNION { [1..n -> EnvLines] : n \in 0..MaxFileLines },
        end \in {<<>>, <<"\n">>} }

EnvKeys == {<<"K">>, <<"K", "X">>}

EnvValues == {<<"v">>, <<"a", "\"", "\\">>}

MaxEntries == 2

\* name=value entries of a cookie string: the token cookie with a value of one, two
\* or no "_", with an empty first portion and with a blank before the value; the
\* token-enc cookie; cna; and a cookie whose name ends with the token cookie's name
CookieEntries ==
    { [name |-> TK, value |-> <<"A", "_", "1">>],
      [name |-> TK, value |-> <<"A", "_", "B", "_", "1">>],
      [name |-> TK, value |-> <<"A", "B">>],
      [name |-> TK, value |-> <<"_", "1">>],
      [name |-> TK, value |-> <<" ", "C", "_", "1">>],
      [name |-> TKENC, value |-> <<"e", "_", "2">>],
      [name |-> CNA, value |-> <<"c">>],
      [name |-> <<"x">> \o TK, value |-> <<"Z", "_", "9">>] }

\* the cookie strings of at most MaxEntries entries with different names, joined by
\* ";" or "; ": what `cookie` holds at lines 414, 419 and 481
CookieStrings ==
    { JoinWith([i \in DOMAIN es |-> Pair(es[i].name, es[i].value)], sep) :
        es \in { e \in UNION { [1..n -> CookieEntries] : n \in 0..MaxEntries } :
                    \A i \in DOMAIN e, j \in DOMAIN e : i # j => e[i].name # e[j].name },
        sep \in {<<";">>, <<";", " ">>} }

\* callback names: the one of the request, one that it is a prefix of, and another
CallbackNames == {<<"f", "1">>, <<"f", "1", "2">>}
WrapperNames == CallbackNames \cup {<<"g">>}

\* JSON texts a body can carry: envelopes (with and without white space, with a
\* ")" inside a string), an array, and two texts that are no JSON
ValidJsonTexts ==
    { <<"{", "\"", "r", "\"", ":", "[", "\"", "S", "\"", "]", "}">>,
      <<"{", " ", "\"", "r", "\"", " ", ":", " ", "1", " ", "}">>,
      <<"{", "\"", "a", "\"", ":", "\"", ")", "\"", "}">>,
      <<"[", "1", "]">> }
JsonTexts == ValidJsonTexts \cup {<<"{", "\"", "r", "\"">>, <<"x">>}

\* the shapes of a response body around a JSON text j and a name n
BodyShapes ==
    {"raw", "raw_padded", "call", "call_semicolon", "call_padded", "call_spaced_paren",
     "call_unclosed", "call_twice_closed", "call_trailing", "no_name", "blank"}

Body(shape, n, j) ==
    CASE shape = "raw" -> j
      [] shape = "raw_padded" -> <<" ">> \o j \o <<"\n">>
      [] shape = "call" -> n \o <<"(">> \o j \o <<")">>
      [] shape = "call_semicolon" -> n \o <<"(">> \o j \o <<")", ";">>
      [] shape = "call_padded" -> <<" ">> \o n \o <<"(">> \o j \o <<")", " ", ";", "\n">>
      [] shape = "call_spaced_paren" -> n \o <<" ", "(">> \o j \o <<")">>
      [] shape = "call_unclosed" -> n \o <<"(">> \o j
      [] shape = "call_twice_closed" -> n \o <<"(">> \o j \o <<")", ")">>
      [] shape = "call_trailing" -> n \o <<"(">> \o j \o <<")", "x">>
      [] shape = "no_name" -> <<"(">> \o j \o <<")">>
      [] shape = "blank" -> <<" ">>

\* resp.text of line 394
Bodies == {<<>>} \cup {Body(shape, n, j) : shape \in BodyShapes, n \in WrapperNames, j \in JsonTexts}

MaxRet == 2

\* strings of a `ret` list: the server's "<code>::<message>" entries
RetStrings ==
    { <<"S", "U", "C", "C", "E", "S", "S", ":", ":", "o", "k">>,
      <<"F", "A", "I", "L", "_", "S", "Y", "S", "_", "T", "O", "K", "E", "N", "_", "E", "X", "O", "I", "R", "E", "D", ":", ":", "x">>,
      <<"F", "A", "I", "L", "_", "B", "I", "Z", ":", ":", "x">>,
      <<>> }

\* the envelopes: `ret` a list of at most MaxRet strings, a string, an int, null
\* or missing
Envelopes ==
    { [ret |-> r] :
        r \in {RetList(items) : items \in UNION { [1..n -> RetStrings] : n \in 0..MaxRet }}
              \cup {RetStr(text) : text \in RetStrings}
              \cup {RetInt(0), RetInt(15), RetNull, RetMissing} }

\* arguments of _make_sign: tokens, millisecond timestamps, application keys and
\* payloads, some of them holding the separator "&"
SignArgs ==
    [token : {<<"A">>, <<"A", "&", "1">>},
     timestamp_ms : {1, 12},
     app_key : {<<"1">>, <<"1", "2">>},
     payload : {<<"p">>, <<"2", "&", "p">>}]

\* the origin of API_URL, the endpoint every search request goes to
API_ORIGIN == HttpsScheme \o <<"h", "5", "a", "p", "i", ".", "m", ".", "t", "a", "o", "b", "a", "o", ".", "c", "o", "m">>

\* what an item's URL fields and id fields can hold
UrlFieldValues ==
    { <<>>, <<"/", "/", "h", "/", "p">>, <<" ", "/", "/", "h", " ">>, <<"/", "p">>, <<"p">>,
      HttpScheme \o <<"h">>, HttpsScheme \o <<"h">> }

\* source items for _normalize_detail_url: every field empty or filled
UrlItems ==
    { [title |-> <<"t">>, itemUrl |-> a, url |-> b, detail_url |-> c, item_id |-> d,
       itemId |-> e, price |-> <<"8">>, origPrice |-> None, priceBeforeCoupon |-> None,
       originalPrice |-> None] :
        a \in UrlFieldValues, b \in {<<>>, <<"/", "/", "g">>}, c \in {<<>>, <<"/", "d">>},
        d \in {<<>>, <<"7">>}, e \in {<<>>, <<" ", "8">>} }

MaxFnItems == 2

\* source items for _extract_products: a title that is empty once its markup is
\* gone or not, a URL or none, a price that is missing, empty, without digits, or
\* with digits, and an original price missing or present
PricedItems ==
    { [title |-> t, itemUrl |-> u, url |-> <<>>, detail_url |-> <<>>, item_id |-> <<>>,
       itemId |-> <<>>, price |-> p, origPrice |-> o, priceBeforeCoupon |-> None,
       originalPrice |-> None] :
        t \in {<<"t">>, <<"<", "i", ">">>},
        u \in {<<"/", "/", "a">>, <<>>},
        p \in {None, <<>>, <<"$">>, <<"$", "8", "8", ".", "0", "0">>,
               <<"1", ",", "2", "8", "8", ".", "5">>},
        o \in {None, <<"9">>} }

\* readings of int(time.time() * 1000), line 359, around a multiple of 100000
ClockReadings == {99999, 100000, 100001}

FetchPages == {1, 2}

\* the callback names of the requests of the model
FetchCallbackNames == {callback_name(c, p) : c \in ClockReadings, p \in FetchPages}

\* resp.text: a bare JSON text (wrapper None), or a call of one of the names
FetchText(wrapper) ==
    LET j == <<"{", "\"", "r", "\"", ":", "[", "\"", "S", "\"", "]", "}">>
    IN IF wrapper = None THEN j ELSE Body("call_semicolon", wrapper, j)

\* one call of _fetch_page: the token in use, the clock, the body that comes back
FetchCalls ==
    { [token |-> t, clock |-> c, wrapper |-> w, text |-> FetchText(w)] :
        t \in {<<"A">>, <<"B">>}, c \in ClockReadings, w \in {None} \cup FetchCallbackNames }

\* the calls the attempt loop makes for one page: the clock does not go back
FetchArgs ==
    { [app_key |-> ak, keyword |-> k, page |-> p, my_cna |-> <<"c">>, calls |-> cs] :
        ak \in {DEFAULT_APP_KEY, <<"1">>}, k \in {<<"k">>, <<"a", " ", "&">>}, p \in FetchPages,
        cs \in {c \in [1..2 -> FetchCalls] : c[2].clock >= c[1].clock} }

NotReturned == [done |-> FALSE, value |-> <<>>]
Returned(v) == [done |-> TRUE, value |-> v]

FnInit ==
    /\ RunParked
    /\ RenewerIdle
    /\ envCookie = <<>>
    /\ fnResult = NotReturned
    /\ \/ /\ fn = "_build_cookie_string"
          /\ fnArgs \in {[cookie_map |-> m] : m \in CookieMaps}
       \/ /\ fn = "_upsert_env_key"
          /\ fnArgs \in {[text |-> t, key |-> k, value |-> v] :
                            t \in EnvTexts, k \in EnvKeys, v \in EnvValues}
       \/ /\ fn = "_extract_token_from_cookie"
          /\ fnArgs \in {[cookie |-> c] : c \in CookieStrings}
       \/ /\ fn = "_parse_jsonp"
          /\ fnArgs \in {[text |-> b, callback |-> cb] : b \in Bodies, cb \in CallbackNames}
       \/ /\ fn = "_ensure_api_success"
          /\ fnArgs \in {[payload |-> e] : e \in Envelopes}
       \/ /\ fn = "_make_sign"
          /\ fnArgs \in [first : SignArgs, second : SignArgs]
       \/ /\ fn = "_normalize_detail_url"
          /\ fnArgs \in {[item |-> it] : it \in UrlItems}
       \/ /\ fn = "_extract_products"
          /\ fnArgs \in {[items |-> its] :
                            its \in UNION { [1..n -> PricedItems] : n \in 0..MaxFnItems }}
       \/ /\ fn = "_fetch_page"
          /\ fnArgs \in FetchArgs
       \/ /\ fn = "_upsert_env_key, twice"
          /\ fnArgs \in {[text |-> t, key |-> k, value |-> v] :
                            t \in EnvTexts, k \in EnvKeys, v \in EnvValues}

Apply_build_cookie_string ==
    /\ fn = "_build_cookie_string"
    /\ ~fnResult.done
    /\ fnResult' = Returned(build_cookie_string(fnArgs.cookie_map))
    /\ UNCHANGED <<envCookie, cfgVars, runVars, histVars, renewerVars, fn, fnArgs>>

Apply_upsert_env_key ==
    /\ fn = "_upsert_env_key"
    /\ ~fnResult.done
    /\ fnResult' = Returned(upsert_env_key(fnArgs.text, fnArgs.key, fnArgs.value))
    /\ UNCHANGED <<envCookie, cfgVars, runVars, histVars, renewerVars, fn, fnArgs>>

Apply_extract_token_from_cookie ==
    /\ fn = "_extract_token_from_cookie"
    /\ ~fnResult.done
    /\ fnResult' = Returned(extract_token_from_cookie(fnArgs.cookie))
    /\ UNCHANGED <<envCookie, cfgVars, runVars, histVars, renewerVars, fn, fnArgs>>

Apply_parse_jsonp ==
    /\ fn = "_parse_jsonp"
    /\ ~fnResult.done
    /\ fnResult' = Returned(parse_jsonp(fnArgs.text, fnArgs.callback))
    /\ UNCHANGED <<envCookie, cfgVars, runVars, histVars, renewerVars, fn, fnArgs>>

Apply_ensure_api_success ==
    /\ fn = "_ensure_api_success"
    /\ ~fnResult.done
    /\ fnResult' = Returned(ensure_api_success(fnArgs.payload))
    /\ UNCHANGED <<envCookie, cfgVars, runVars, histVars, renewerVars, fn, fnArgs>>

\* two calls of _make_sign, one after the other
Apply_make_sign ==
    /\ fn = "_make_sign"
    /\ ~fnResult.done
    /\ LET a == fnArgs.first
           b == fnArgs.second
       IN fnResult' = Returned(
            [raw1 |-> sign_preimage(a.token, a.timestamp_ms, a.app_key, a.payload),
             raw2 |-> sign_preimage(b.token, b.timestamp_ms, b.app_key, b.payload),
             sign1 |-> make_sign(a.token, a.timestamp_ms, a.app_key, a.payload),
             sign2 |-> make_sign(b.token, b.timestamp_ms, b.app_key, b.payload)])
    /\ UNCHANGED <<envCookie, cfgVars, runVars, histVars, renewerVars, fn, fnArgs>>

Apply_normalize_detail_url ==
    /\ fn = "_normalize_detail_url"
    /\ ~fnResult.done
    /\ fnResult' = Returned(normalize_detail_url(fnArgs.item))
    /\ UNCHANGED <<envCookie, cfgVars, runVars, histVars, renewerVars, fn, fnArgs>>

Apply_extract_products ==
    /\ fn = "_extract_products"
    /\ ~fnResult.done
    /\ fnResult' = Returned(extract_products(fnArgs.items, 1))
    /\ UNCHANGED <<envCookie, cfgVars, runVars, histVars, renewerVars, fn, fnArgs>>

\* one call of _fetch_page, lines 359-394, of the two that the attempt loop of a
\* page can make; what lines 395-396 do with the payload is ensure_api_success and
\* extract_products
Apply_fetch_page ==
    /\ fn = "_fetch_page"
    /\ ~fnResult.done
    /\ LET n == Len(fnResult.value) + 1
           call == fnArgs.calls[n]
           request == fetch_page_request(call.token, fnArgs.app_key, DEFAULT_APP_ID,
                                         fnArgs.keyword, fnArgs.page, fnArgs.my_cna, call.clock)
       IN fnResult' = [done |-> n = Len(fnArgs.calls),
                       value |-> Append(fnResult.value,
                                        [request |-> request,
                                         payload |-> parse_jsonp(call.text, request.callback)])]
    /\ UNCHANGED <<envCookie, cfgVars, runVars, histVars, renewerVars, fn, fnArgs>>

\* _upsert_env_key(path, key, value) called a second time with the same arguments:
\* each call reads the file as the call before left it
Apply_upsert_env_key_again ==
    /\ fn = "_upsert_env_key, twice"
    /\ ~fnResult.done
    /\ LET n == Len(fnResult.value) + 1
           file == IF n = 1 THEN fnArgs.text ELSE fnResult.value[n - 1]
       IN fnResult' = [done |-> n = 2,
                       value |-> Append(fnResult.value,
                                        upsert_env_key(file, fnArgs.key, fnArgs.value))]
    /\ UNCHANGED <<envCookie, cfgVars, runVars, histVars, renewerVars, fn, fnArgs>>

FnNext ==
    \/ Apply_build_cookie_string
    \/ Apply_upsert_env_key
    \/ Apply_extract_token_from_cookie
    \/ Apply_parse_jsonp
    \/ Apply_ensure_api_success
    \/ Apply_make_sign
    \/ Apply_normalize_detail_url
    \/ Apply_extract_products
    \/ Apply_fetch_page
    \/ Apply_upsert_env_key_again

FnSpec == FnInit /\ [][FnNext]_vars

\* the lines of the file before and after the _upsert_env_key call that returned
UpsertBefore == IF fnArgs.text = None THEN <<>> ELSE splitlines(fnArgs.text)
UpsertAfter == splitlines(fnResult.value)

\* the line the call was to write: key="value", with \ and " of the value escaped
ExpectedEnvLine ==
    LET esc(c) == IF c = "\\" \/ c = "\"" THEN <<"\\", c>> ELSE <<c>>
        RECURSIVE escAll(_)
        escAll(v) == IF v = <<>> THEN <<>> ELSE esc(Head(v)) \o escAll(Tail(v))
    IN fnArgs.key \o <<"=", "\"">> \o escAll(fnArgs.value) \o <<"\"">>

\* line i of the file before the call assigns the key: optional white space, the
\* key, optional white space, "="
IsKeyLine(line) ==
    \E i \in 0..Len(line), j \in 0..Len(line) :
        /\ i + Len(fnArgs.key) + j + 1 <= Len(line)
        /\ \A m \in 1..i : IsSpace(line[m])
        /\ SubSeq(line, i + 1, i + Len(fnArgs.key)) = fnArgs.key
        /\ \A m \in (i + Len(fnArgs.key) + 1)..(i + Len(fnArgs.key) + j) : IsSpace(line[m])
        /\ line[i + Len(fnArgs.key) + j + 1] = "="

\* C19: after _upsert_env_key every line that does not assign the key is still
\* there, unchanged and in place (blank lines and comments too); when a line
\* assigned the key the new assignment stands at its position, and otherwise it
\* comes after all the lines the file had.
C19_UpsertPreservesLines ==
    (fn = "_upsert_env_key" /\ fnResult.done) =>
        IF \E i \in DOMAIN UpsertBefore : IsKeyLine(UpsertBefore[i])
        THEN /\ Len(UpsertAfter) = Len(UpsertBefore)
             /\ \A i \in DOMAIN UpsertBefore :
                  UpsertAfter[i] = IF IsKeyLine(UpsertBefore[i]) THEN ExpectedEnvLine
                                   ELSE UpsertBefore[i]
        ELSE /\ Len(UpsertAfter) > Len(UpsertBefore)
             /\ SubSeq(UpsertAfter, 1, Len(UpsertBefore)) = UpsertBefore
             /\ UpsertAfter[Len(UpsertAfter)] = ExpectedEnvLine
             /\ \A i \in (Len(UpsertBefore) + 1)..(Len(UpsertAfter) - 1) :
                  Strip(UpsertAfter[i]) = <<>>

\* the names of the cookies a cookie string lists, in its order
StringNames(str) ==
    LET parts == SelectSeq(Split(str, ";"), LAMBDA part : Strip(part) # <<>>)
    IN [i \in 1..Len(parts) |->
          LET part == Strip(parts[i]) IN SubSeq(part, 1, IndexOf(part, "=") - 1)]

\* the priority order as the cookie string is to show it
ClaimedPriority ==
    << <<"_", "m", "_", "h", "5", "_", "t", "k">>,
       <<"_", "m", "_", "h", "5", "_", "t", "k", "_", "e", "n", "c">>,
       <<"c", "o", "o", "k", "i", "e", "2">>,
       <<"t">>,
       <<"_", "t", "b", "_", "t", "o", "k", "e", "n", "_">>,
       <<"c", "n", "a">> >>

IsWellKnown(name) == \E i \in DOMAIN ClaimedPriority : ClaimedPriority[i] = name

\* C20: the string _build_cookie_string assembles lists every cookie of the map
\* exactly once, as name=value; the well-known names of the map come first, in the
\* order _m_h5_tk, _m_h5_tk_enc, cookie2, t, _tb_token_, cna; all other names follow
\* in lexicographic order.
C20_CookieStringOrder ==
    (fn = "_build_cookie_string" /\ fnResult.done) =>
        LET m == fnArgs.cookie_map
            names == StringNames(fnResult.value)
        IN /\ Len(names) = Cardinality(DOMAIN m)
           /\ {names[i] : i \in DOMAIN names} = DOMAIN m
           /\ seed_session_cookies(fnResult.value) = m
           /\ SelectSeq(names, IsWellKnown)
                = SelectSeq(ClaimedPriority, LAMBDA name : name \in DOMAIN m)
           /\ \A i \in DOMAIN names, j \in DOMAIN names :
                (i < j /\ IsWellKnown(names[j])) => IsWellKnown(names[i])
           /\ \A i \in DOMAIN names, j \in DOMAIN names :
                (i < j /\ ~IsWellKnown(names[i]) /\ ~IsWellKnown(names[j]))
                    => LexLess(names[i], names[j])

\* a map with a well-known name that sorts last (t) and another that sorts first
\* (B): the string starts with cna, t's priority place, and ends with B
C20_Witness ==
    /\ fn = "_build_cookie_string"
    /\ fnResult.done
    /\ DOMAIN fnArgs.cookie_map = {<<"t">>, CNA, <<"B">>}
    /\ StringNames(fnResult.value) = << <<"t">>, CNA, <<"B">> >>

(* ------------------------------------------------------------------ *)
(* refresh_taobao_cookie(), step by step                               *)
(* ------------------------------------------------------------------ *)
\* five ticks of the model's clock are one second: 0.2 s, the smallest poll
\* interval, is one tick
TicksPerSecond == 5
MinTimeoutSeconds == 10
MinPollTicks == 1

Max(a, b) == IF a >= b THEN a ELSE b

TAOBAO_COOKIE_KEY == <<"T", "A", "O", "B", "A", "O", "_", "C", "O", "O", "K", "I", "E">>

\* values of TAOBAO_COOKIE_REFRESH_BACKEND after strip().lower()
BackendSettings == {"auto", "drission", "playwright", "firefox"}

TimeoutArgs == {0, MinTimeoutSeconds + 1}
PollArgs == {0, 3}

\* .env files the renewer finds: none, one without the key, one with it
RenewerEnvTexts ==
    { None,
      <<"O", "=", "1", "\n">>,
      TAOBAO_COOKIE_KEY \o <<"=", "o", "l", "d", "\n", "O", "=", "1", "\n">> }

BrowserCookie(name, value, domain) == [name |-> name, value |-> value, domain |-> domain]

DotTaobao == <<".">> \o TaobaoCom
DotTmallUpper == <<".", "T", "M", "A", "L", "L", ".", "c", "o", "m">>
DotAlipay == <<".", "a", "l", "i", "p", "a", "y", ".", "c", "o", "m">>

\* what the browser's cookie jar can hold at a poll: nothing; both required
\* cookies, one with a blank value; both, one on another site's domain; both
\* (twice, with other cookies, in two orders)
BrowserJars ==
    { <<>>,
      <<BrowserCookie(TK, <<"A", "_", "1">>, DotTaobao), BrowserCookie(TKENC, <<" ">>, DotTaobao)>>,
      <<BrowserCookie(TK, <<"A", "_", "1">>, DotTaobao), BrowserCookie(TKENC, <<"e">>, DotAlipay)>>,
      <<BrowserCookie(CNA, <<"c">>, DotTaobao), BrowserCookie(TKENC, <<"e">>, DotTaobao),
        BrowserCookie(TK, <<"A", "_", "1">>, DotTaobao)>>,
      <<BrowserCookie(<<"z">>, <<"9", "\"">>, DotTaobao), BrowserCookie(TK, <<"A", "_", "1">>, DotTaobao),
        BrowserCookie(<<" ", "t">>, <<"5">>, DotTmallUpper), BrowserCookie(TKENC, <<"e">>, DotTaobao),
        BrowserCookie(TK, <<"B", "_", "2">>, DotTmallUpper)>> }

\* lines 403-404 for every jar: rows_from_page_fn(page), then _cookie_map(rows)
PolledMap ==
    [b \in {"drission", "playwright"} |->
        [raw \in BrowserJars |->
            cookie_map_of(IF b = "drission" THEN cookie_items_from_page(raw)
                          ELSE cookie_items_from_playwright(raw))]]

\* the resources each step of _build_playwright_browser starts (lines 203-206)
PlaywrightSteps == <<"pw", "browser", "context", "page">>

\* how _build_playwright_browser can end: the import fails, step n fails, or "ok"
PlaywrightOutcomes == {"import"} \cup {PlaywrightSteps[i] : i \in DOMAIN PlaywrightSteps} \cup {"ok"}

\* the resources it has started when it ends that way
playwright_started(end) ==
    IF end = "import" THEN {}
    ELSE IF end = "ok" THEN {PlaywrightSteps[i] : i \in DOMAIN PlaywrightSteps}
    ELSE {PlaywrightSteps[i] : i \in {j \in DOMAIN PlaywrightSteps :
                                        \E k \in DOMAIN PlaywrightSteps :
                                            PlaywrightSteps[k] = end /\ j < k}}

\* what close_browser_fn closes: page.quit(), or context.close() (with its page),
\* browser.close() and pw.stop()
close_browser_fn(b) ==
    IF b = "drission" THEN {"chromium_page"} ELSE {"context", "page", "browser", "pw"}

RenewerInit ==
    /\ RunParked
    /\ FnIdle
    /\ envCookie = Pair(CNA, <<"c">>)
    /\ backend \in BackendSettings
    /\ timeout_seconds \in TimeoutArgs
    /\ poll_interval \in PollArgs
    /\ envFile \in RenewerEnvTexts
    /\ rpc = "entry"
    /\ active_backend = ""
    /\ started = {}
    /\ closed = {}
    /\ now = 0
    /\ deadline = 0
    /\ browserJar = <<>>
    /\ cookieString = <<>>
    /\ result = None
    /\ error = "none"
    /\ outcome = "none"
    /\ startLog = <<>>
    /\ navigated = FALSE
    /\ polled = FALSE
    /\ lastPollAt = 0
    /\ sawRequired = FALSE

renewerFrame == <<cfgVars, runVars, histVars, fnVars>>

\* lines 346-349
resolve_backend(raw) == IF raw \in {"auto", "drission", "playwright"} THEN raw ELSE "auto"

\* lines 342-355: the arguments are clamped, the backend setting is read
RenewerStart ==
    /\ rpc = "entry"
    /\ timeout_seconds' = Max(MinTimeoutSeconds, timeout_seconds)
    /\ poll_interval' = Max(MinPollTicks, poll_interval)
    /\ backend' = resolve_backend(backend)
    /\ rpc' = IF backend' \in {"auto", "drission"} THEN "build_drission" ELSE "build_playwright"
    /\ UNCHANGED <<envCookie, renewerFrame, active_backend, started, closed, now, deadline,
                   browserJar, cookieString, envFile, result, error, outcome, startLog,
                   navigated, polled, lastPollAt, sawRequired>>

\* _build_browser, lines 87-111: the second attempt is made when the first raised
build_browser(primary_ok, toggled_ok) == primary_ok \/ toggled_ok

\* a failed first backend always ends the call
first_backend_failure_always_raises == TRUE

\* line 372: `if backend == "drission": raise`
first_backend_failure_raises == backend = "drission"

\* lines 357-374: the first backend
BuildDrission ==
    /\ rpc = "build_drission"
    /\ \E primary_ok \in BOOLEAN, toggled_ok \in BOOLEAN :
        LET ok == build_browser(primary_ok, toggled_ok)
        IN /\ startLog' = Append(startLog, [backend |-> "drission", ok |-> ok])
           /\ IF ok
              THEN /\ active_backend' = "drission"
                   /\ started' = started \cup {"chromium_page"}
                   /\ rpc' = "navigate"
                   /\ UNCHANGED error
              ELSE /\ UNCHANGED <<active_backend, started>>
                   /\ IF first_backend_failure_raises
                      THEN rpc' = "raised" /\ error' = "unavailable"
                      ELSE rpc' = "build_playwright" /\ UNCHANGED error
    /\ UNCHANGED <<envCookie, renewerFrame, backend, timeout_seconds, poll_interval, closed, now,
                   deadline, browserJar, cookieString, envFile, result, outcome, navigated,
                   polled, lastPollAt, sawRequired>>

\* lines 376-389 with _build_playwright_browser (175-207): `page is None`
BuildPlaywright ==
    /\ rpc = "build_playwright"
    /\ \E end \in PlaywrightOutcomes :
        /\ startLog' = Append(startLog, [backend |-> "playwright", ok |-> end = "ok"])
        /\ started' = started \cup playwright_started(end)
        /\ IF end = "ok"
           THEN /\ active_backend' = "playwright"
                /\ rpc' = "navigate"
                /\ UNCHANGED error
           ELSE /\ rpc' = "raised"
                /\ error' = "unavailable"
                /\ UNCHANGED active_backend
    /\ UNCHANGED <<envCookie, renewerFrame, backend, timeout_seconds, poll_interval, closed, now,
                   deadline, browserJar, cookieString, envFile, result, outcome, navigated,
                   polled, lastPollAt, sawRequired>>

\* lines 392-400: navigate_fn(page, url), then the deadline is set; a call into
\* the browser may raise
Navigate ==
    /\ rpc = "navigate"
    /\ navigated' = TRUE
    /\ \E raises \in BOOLEAN :
        IF raises
        THEN /\ outcome' = "navigation_error"
             /\ rpc' = "finally"
             /\ UNCHANGED deadline
        ELSE /\ deadline' = now + timeout_seconds * TicksPerSecond
             /\ rpc' = "poll"
             /\ UNCHANGED outcome
    /\ UNCHANGED <<envCookie, renewerFrame, backend, timeout_seconds, poll_interval,
                   active_backend, started, closed, now, browserJar, cookieString, envFile, result,
                   error, startLog, polled, lastPollAt, sawRequired>>

\* the loop goes on at the deadline itself
loop_test_at_deadline == now <= deadline

\* `while time.time() < deadline`, line 402
loop_test == now < deadline

\* lines 402-420: one turn of the polling loop, or its end at the deadline; the
\* read of the browser's cookies may raise
Poll ==
    /\ rpc = "poll"
    /\ IF ~loop_test
       THEN /\ outcome' = "timeout"
            /\ rpc' = "finally"
            /\ UNCHANGED <<now, browserJar, cookieString, polled, lastPollAt, sawRequired>>
       ELSE /\ polled' = TRUE
            /\ lastPollAt' = now
            /\ \/ /\ outcome' = "poll_error"
                  /\ rpc' = "finally"
                  /\ UNCHANGED <<now, browserJar, cookieString, sawRequired>>
               \/ \E raw \in BrowserJars :
                    LET cookie_map == PolledMap[active_backend][raw]
                    IN /\ browserJar' = raw
                       /\ IF has_required_cookie(cookie_map)
                          THEN /\ cookieString' = build_cookie_string(cookie_map)
                               /\ sawRequired' = TRUE
                               /\ rpc' = "persist"
                               /\ UNCHANGED <<now, outcome>>
                          ELSE /\ \E late \in 0..MaxJitter : now' = now + poll_interval + late
                               /\ UNCHANGED <<rpc, outcome, cookieString, sawRequired>>
    /\ UNCHANGED <<envCookie, renewerFrame, backend, timeout_seconds, poll_interval,
                   active_backend, started, closed, deadline, envFile, result, error, startLog,
                   navigated>>

\* the cookie is saved under another key
persist_under_other_key(text, c) == upsert_env_key(text, <<"O">>, c)

\* line 407: _upsert_env_key(env_file, "TAOBAO_COOKIE", cookie)
persist(text, c) == upsert_env_key(text, TAOBAO_COOKIE_KEY, c)

\* the file is written before the write is known to succeed
Persist_writes_before_failing ==
    /\ rpc = "persist"
    /\ envFile' = persist(envFile, cookieString)
    /\ \/ /\ outcome' = "persist_error"
          /\ UNCHANGED <<envCookie, result>>
       \/ /\ envCookie' = cookieString
          /\ result' = cookieString
          /\ outcome' = "return"
    /\ rpc' = "finally"
    /\ UNCHANGED <<renewerFrame, backend, timeout_seconds, poll_interval, active_backend,
                   started, closed, now, deadline, browserJar, cookieString, error, startLog,
                   navigated, polled, lastPollAt, sawRequired>>

\* lines 406-410: the cookie string is saved to the file, then to the environment,
\* then returned; writing the file may raise
Persist ==
    /\ rpc = "persist"
    /\ \/ /\ outcome' = "persist_error"
          /\ UNCHANGED <<envFile, envCookie, result>>
       \/ /\ envFile' = persist(envFile, cookieString)
          /\ envCookie' = cookieString
          /\ result' = cookieString
          /\ outcome' = "return"
    /\ rpc' = "finally"
    /\ UNCHANGED <<renewerFrame, backend, timeout_seconds, poll_interval, active_backend,
                   started, closed, now, deadline, browserJar, cookieString, error, startLog,
                   navigated, polled, lastPollAt, sawRequired>>

\* lines 426-427: `finally: close_browser_fn()`, then the return or the exception
CloseBrowser ==
    /\ rpc = "finally"
    /\ closed' = closed \cup close_browser_fn(active_backend)
    /\ IF outcome = "return"
       THEN rpc' = "returned" /\ UNCHANGED error
       ELSE rpc' = "raised" /\ error' = outcome
    /\ UNCHANGED <<envCookie, renewerFrame, backend, timeout_seconds, poll_interval,
                   active_backend, started, now, deadline, browserJar, cookieString, envFile,
                   result, outcome, startLog, navigated, polled, lastPollAt, sawRequired>>

RenewerNext ==
    \/ RenewerStart
    \/ BuildDrission
    \/ BuildPlaywright
    \/ Navigate
    \/ Poll
    \/ Persist
    \/ CloseBrowser

RenewerSpec == RenewerInit /\ [][RenewerNext]_vars

\* one thread runs the function: a step that can be taken is taken
RenewerFairSpec == RenewerSpec /\ WF_vars(RenewerNext)

RenewerEnded == rpc \in {"returned", "raised"}

\* C14: when refresh_taobao_cookie has returned or raised, every browser-side
\* resource that was started has been closed.
C14_BrowserReleased == RenewerEnded => started \subseteq closed

RequiredInJar(raw, key) ==
    \E i \in DOMAIN raw :
        /\ Strip(raw[i].name) = key
        /\ Strip(raw[i].value) # <<>>
        /\ \/ Contains(Lower(raw[i].domain), TaobaoCom)
           \/ Contains(Lower(raw[i].domain), TmallCom)

BothInJar(raw) == RequiredInJar(raw, TK) /\ RequiredInJar(raw, TKENC)

\* C16: a cookie string is returned only when a poll found both `_m_h5_tk` and
\* `_m_h5_tk_enc` with non-empty values in the browser's jar; the string holds both,
\* with values that jar held for them; and no poll that finds both is followed by
\* another poll.
C16_ReturnsOnRequiredCookies ==
    /\ (rpc = "poll" /\ polled) => ~BothInJar(browserJar)
    /\ (rpc = "persist" \/ outcome = "return") => (sawRequired /\ BothInJar(browserJar))
    /\ ~sawRequired => (result = None /\ cookieString = <<>>)
    /\ result # None
        => \A key \in {TK, TKENC} :
             /\ extract_cookie_value(result, key) # <<>>
             /\ \E i \in DOMAIN browserJar :
                  /\ Strip(browserJar[i].name) = key
                  /\ Strip(browserJar[i].value) = extract_cookie_value(result, key)

\* the call returned at a later poll than the first, from a jar with other cookies
C16_Witness ==
    /\ rpc = "returned"
    /\ lastPollAt > 0
    /\ Len(browserJar) = 5
    /\ extract_cookie_value(result, TK) = <<"B", "_", "2">>

\* the backends the configuration permits, in the order they are tried
PermittedBackends ==
    CASE backend = "drission" -> <<"drission">>
      [] backend = "playwright" -> <<"playwright">>
      [] OTHER -> <<"drission", "playwright">>

BuildingDone == rpc \notin {"entry", "build_drission", "build_playwright"}

StartedOk == {i \in DOMAIN startLog : startLog[i].ok}

\* C17: the backends are started in the permitted order, a later one if and only
\* if the one before it failed to start; during navigation and polling exactly one
\* backend is active; the call fails as unavailable exactly when every permitted
\* backend failed to start, and then nothing was navigated or polled.
C17_BackendFallback ==
    /\ Len(startLog) <= Len(PermittedBackends)
    /\ \A i \in DOMAIN startLog :
        /\ startLog[i].backend = PermittedBackends[i]
        /\ i > 1 => ~startLog[i - 1].ok
    /\ BuildingDone
        => \A i \in DOMAIN PermittedBackends :
             (i > 1 /\ i - 1 \in DOMAIN startLog /\ ~startLog[i - 1].ok) => i \in DOMAIN startLog
    /\ Cardinality(StartedOk) <= 1
    /\ (navigated \/ polled)
        => /\ \E i \in StartedOk : startLog[i].backend = active_backend
           /\ started \in {{"chromium_page"}, {"pw", "browser", "context", "page"}}
    /\ (RenewerEnded /\ error = "unavailable")
        <=> (BuildingDone /\ Len(startLog) = Len(PermittedBackends) /\ StartedOk = {})
    /\ error = "unavailable" => (~navigated /\ ~polled)

\* the first backend failed to start, the second took over and the call returned
C17_Witness ==
    /\ rpc = "returned"
    /\ startLog = <<[backend |-> "drission", ok |-> FALSE], [backend |-> "playwright", ok |-> TRUE]>>
    /\ active_backend = "playwright"

\* the text between the double quotes of a quoted value, with \x read as x
RECURSIVE Unescape(_)
Unescape(q) ==
    IF q = <<>> THEN <<>>
    ELSE IF Head(q) = "\\" /\ Len(q) >= 2 THEN <<q[2]>> \o Unescape(SubSeq(q, 3, Len(q)))
    ELSE <<Head(q)>> \o Unescape(Tail(q))

\* the value a .env text holds under `key`: that of the last line assigning it
EnvFileValue(text, key) ==
    LET lines == splitlines(text)
        at == {i \in DOMAIN lines :
                 \E sp \in 0..Len(lines[i]) :
                    /\ \A m \in 1..sp : IsSpace(lines[i][m])
                    /\ StartsWith(SubSeq(lines[i], sp + 1, Len(lines[i])), key \o <<"=">>)}
    IN IF at = {} THEN None
       ELSE LET line == LStrip(lines[CHOOSE i \in at : \A j \in at : j <= i])
                v == Strip(SubSeq(line, Len(key) + 2, Len(line)))
            IN IF Len(v) >= 2 /\ v[1] = "\"" /\ v[Len(v)] = "\""
               THEN Unescape(SubSeq(v, 2, Len(v) - 1))
               ELSE v

\* C18: from the moment refresh_taobao_cookie is to return c, and when it has
\* returned c, the .env file holds c under TAOBAO_COOKIE and the process
\* environment holds c.
C18_PersistedBeforeReturned ==
    (outcome = "return" \/ rpc = "returned")
        => /\ result # None
           /\ result = cookieString
           /\ envFile # None
           /\ EnvFileValue(envFile, TAOBAO_COOKIE_KEY) = result
           /\ envCookie = result

\* the call returned a cookie string with a double quote in it, and the file's old
\* TAOBAO_COOKIE line was replaced in place
C18_Witness ==
    /\ rpc = "returned"
    /\ Contains(result, <<"\"">>)
    /\ Len(splitlines(envFile)) = 2
    /\ assign_match(splitlines(envFile)[1], TAOBAO_COOKIE_KEY)

\* C36: the .env file and the environment's TAOBAO_COOKIE change only in the step
\* that saves the cookie string the call is about to return; a call on its way to
\* return stays so, and a call that raised (timeout, no backend, an exception while
\* navigating or polling) returned nothing and never was on that way, so it left
\* both as they were.
C36_WrittenOnlyOnSuccess ==
    /\ [][ /\ (envFile' # envFile \/ envCookie' # envCookie)
               => /\ rpc = "persist"
                  /\ outcome' = "return"
                  /\ envCookie' = cookieString
                  /\ result' = cookieString
           /\ outcome = "return" => outcome' = "return" ]_vars
    /\ [](outcome = "return" => (rpc \in {"finally", "returned"} /\ error = "none"))
    /\ [](rpc = "raised" => (outcome # "return" /\ result = None))

\* the call timed out after polling: the file still holds its old TAOBAO_COOKIE
\* line and the environment its old value
C36_Witness ==
    /\ rpc = "raised"
    /\ error = "timeout"
    /\ polled
    /\ envFile = TAOBAO_COOKIE_KEY \o <<"=", "o", "l", "d", "\n", "O", "=", "1", "\n">>
    /\ envCookie = Pair(CNA, <<"c">>)

(* ------------------------------------------------------------------ *)
(* The helpers of the client, applied to bounded inputs                *)
(* ------------------------------------------------------------------ *)
\* C21: the cookie string the renewer assembles from a cookie map, parsed again by
\* the client, gives every name of the map its value back, both in the session jar
\* that _seed_session_cookies fills and through _extract_cookie_value; and the
\* string starts with the token cookie, then the token-enc cookie, when the map
\* has them.
C21_CookieRoundTrip ==
    (fn = "_build_cookie_string" /\ fnResult.done) =>
        LET m == fnArgs.cookie_map
            str == fnResult.value
            jar == seed_session_cookies(str)
            tk == IF TK \in DOMAIN m THEN Pair(TK, m[TK]) ELSE <<>>
            tkenc == IF TKENC \in DOMAIN m THEN Pair(TKENC, m[TKENC]) ELSE <<>>
        IN /\ \A name \in DOMAIN m :
                /\ name \in DOMAIN jar
                /\ jar[name] = m[name]
                /\ extract_cookie_value(str, name) = m[name]
           /\ TK \in DOMAIN m => StartsWith(str, tk)
           /\ (TKENC \in DOMAIN m /\ TK \notin DOMAIN m) => StartsWith(str, tkenc)
           /\ (TKENC \in DOMAIN m /\ TK \in DOMAIN m)
                => StartsWith(str, tk \o <<";", " ">> \o tkenc)

\* a map where both required cookies follow another name in sorted order and the
\* token cookie's value holds "=" and a blank
C21_Witness ==
    /\ fn = "_build_cookie_string"
    /\ fnResult.done
    /\ DOMAIN fnArgs.cookie_map = {TK, TKENC, <<"B">>}
    /\ fnArgs.cookie_map[TK] = <<"a", "=", "b", " ", "c">>
    /\ extract_cookie_value(fnResult.value, <<"B">>) = fnArgs.cookie_map[<<"B">>]
    /\ StartsWith(fnResult.value, Pair(TK, <<"a", "=", "b", " ", "c">>))

\* the entries of a cookie string: its parts between ";", white space before the
\* name ignored
TokenEntryValues(cookie_str) ==
    LET parts == Split(cookie_str, ";")
        isEntry(part) == StartsWith(LStrip(part), TK \o <<"=">>)
        mine == SelectSeq(parts, isEntry)
    IN [i \in DOMAIN mine |-> Strip(SubSeq(LStrip(mine[i]), Len(TK) + 2, Len(LStrip(mine[i]))))]

\* C22: the token _extract_token_from_cookie derives is the part of the _m_h5_tk
\* cookie's value before its first "_", or the whole value when it has none; it is
\* None when the string has no _m_h5_tk entry (a _m_h5_tk_enc entry is none) or
\* when that part is empty.
C22_TokenExtraction ==
    (fn = "_extract_token_from_cookie" /\ fnResult.done) =>
        LET values == TokenEntryValues(fnArgs.cookie)
        IN IF values = <<>> THEN fnResult.value = None
           ELSE LET value == values[1]
                    cut == IndexOf(value, "_")
                    portion == IF cut = 0 THEN value ELSE SubSeq(value, 1, cut - 1)
                IN IF portion = <<>> THEN fnResult.value = None
                   ELSE fnResult.value = portion

\* the token cookie after a cookie whose name ends with its name, with two "_" in
\* its value: the token is what stands before the first
C22_Witness ==
    /\ fn = "_extract_token_from_cookie"
    /\ fnResult.done
    /\ fnArgs.cookie = JoinCookie(<<Pair(<<"x">> \o TK, <<"Z", "_", "9">>),
                                    Pair(TK, <<"A", "_", "B", "_", "1">>)>>)
    /\ fnResult.value = <<"A">>

\* _parse_jsonp raised instead of returning a value
ParseFailed == fnResult.value \in {RuntimeError, JSONDecodeError}

\* body is name(j), with nothing or white space and one ";" after the ")"
IsCallOf(body, name, j) ==
    /\ StartsWith(body, name \o <<"(">> \o j \o <<")">>)
    /\ Strip(SubSeq(body, Len(name) + Len(j) + 3, Len(body))) \in {<<>>, <<";">>}

\* C23: _parse_jsonp parses a body that begins with "{" as raw JSON; a body
\* cb(<json>) parses to the value of <json> exactly when cb is the callback name of
\* the request; an empty body, a body wrapped in another name and every other
\* shape end in a parse failure, never in a value.
C23_ParseBody ==
    (fn = "_parse_jsonp" /\ fnResult.done) =>
        LET body == Strip(fnArgs.text)
        IN /\ StartsWith(body, <<"{">>) => fnResult.value = json_loads(body)
           /\ \A n \in WrapperNames, j \in ValidJsonTexts :
                body = n \o <<"(">> \o j \o <<")">> =>
                    /\ ~ParseFailed <=> n = fnArgs.callback
                    /\ n = fnArgs.callback => fnResult.value = json_loads(j)
           /\ body = <<>> => ParseFailed
           /\ ~ParseFailed =>
                \/ /\ StartsWith(body, <<"{">>)
                   /\ json_loads(body) # JSONDecodeError
                \/ \E a \in 1..Len(body), b \in 0..Len(body) :
                        /\ IsCallOf(body, fnArgs.callback, SubSeq(body, a, b))
                        /\ json_loads(SubSeq(body, a, b)) = fnResult.value
                        /\ fnResult.value # JSONDecodeError

\* the envelope wrapped in the request's callback name parses to what the raw
\* envelope parses to
C23_Witness ==
    /\ fn = "_parse_jsonp"
    /\ fnResult.done
    /\ fnArgs.callback = <<"f", "1">>
    /\ \E j \in ValidJsonTexts :
        /\ Head(j) = "{"
        /\ fnArgs.text = fnArgs.callback \o <<"(">> \o j \o <<")">>
        /\ fnResult.value = parse_jsonp(j, fnArgs.callback)
        /\ ~ParseFailed

\* the strings `ret` holds: the entries of the list, or the string itself
RetHas(marker) ==
    LET ret == fnArgs.payload.ret
    IN \/ ret.kind = "list" /\ \E i \in DOMAIN ret.items : Contains(ret.items[i], marker)
       \/ ret.kind = "str" /\ Contains(ret.text, marker)

\* C24: _ensure_api_success classifies every envelope as exactly one of success
\* (it returns), TokenExpired and ApiFailure (a RuntimeError): success when `ret`
\* holds the success marker, TokenExpired when it holds the FAIL_SYS_TOKEN_EXOIRED
\* marker and no success marker, ApiFailure for every other `ret`, a missing or
\* empty one included.
C24_EnvelopeClassification ==
    (fn = "_ensure_api_success" /\ fnResult.done) =>
        /\ fnResult.value \in {None, TokenExpiredError, RuntimeError}
        /\ fnResult.value = None <=> RetHas(SUCCESS)
        /\ fnResult.value = TokenExpiredError
             <=> (RetHas(FAIL_SYS_TOKEN_EXOIRED) /\ ~RetHas(SUCCESS))
        /\ fnResult.value = RuntimeError
             <=> (~RetHas(FAIL_SYS_TOKEN_EXOIRED) /\ ~RetHas(SUCCESS))

\* a `ret` list with the expiry marker first and the success marker second: success
C24_Witness ==
    /\ fn = "_ensure_api_success"
    /\ fnResult.done
    /\ fnArgs.payload.ret.kind = "list"
    /\ Len(fnArgs.payload.ret.items) = 2
    /\ Contains(fnArgs.payload.ret.items[1], FAIL_SYS_TOKEN_EXOIRED)
    /\ Contains(fnArgs.payload.ret.items[2], SUCCESS)
    /\ fnResult.value = None

\* the arguments in which the two _make_sign calls differ
SignDiff ==
    {f \in {"token", "timestamp_ms", "app_key", "payload"} :
        fnArgs.first[f] # fnArgs.second[f]}

\* C26: the signature is a function of (token, timestampMs, appKey, payload) alone:
\* two calls with equal arguments give equal signatures; the signed string is
\* "{token}&{timestampMs}&{appKey}&{payload}", and the strings of two calls differ
\* whenever exactly one of the four arguments differs.
C26_SigningDeterministic ==
    (fn = "_make_sign" /\ fnResult.done) =>
        LET a == fnArgs.first
            r == fnResult.value
        IN /\ SignDiff = {} => r.sign1 = r.sign2
           /\ Cardinality(SignDiff) = 1 => r.raw1 # r.raw2
           /\ r.raw1 = JoinWith(<<a.token, IntToStr(a.timestamp_ms), a.app_key, a.payload>>,
                                <<"&">>)
           /\ r.sign1 = md5_hexdigest(r.raw1)
           /\ r.sign2 = md5_hexdigest(r.raw2)

\* two calls that differ in the application key only, with "&" in token and payload
C26_Witness ==
    /\ fn = "_make_sign"
    /\ fnResult.done
    /\ SignDiff = {"app_key"}
    /\ fnArgs.first.token = <<"A", "&", "1">>
    /\ fnArgs.first.payload = <<"2", "&", "p">>
    /\ fnResult.value.raw1 # fnResult.value.raw2

\* the URL fields of the item in the order they are read, stripped, and those a
\* URL can be made of
UrlFields == <<Strip(fnArgs.item.itemUrl), Strip(fnArgs.item.url), Strip(fnArgs.item.detail_url)>>

IsProtocolRelative(u) == StartsWith(u, <<"/", "/">>)
IsAbsoluteHttp(u) == StartsWith(u, <<"h", "t", "t", "p", ":", "/", "/">>) \/ StartsWith(u, <<"h", "t", "t", "p", "s", ":", "/", "/">>)
IsRootRelative(u) == StartsWith(u, <<"/">>) /\ ~IsProtocolRelative(u)
IsUsableUrl(u) == IsProtocolRelative(u) \/ IsAbsoluteHttp(u) \/ IsRootRelative(u)

UsableUrlFields == SelectSeq(UrlFields, IsUsableUrl)

\* the item id: item_id, or itemId when item_id is empty
ClaimedItemId ==
    Strip(IF fnArgs.item.item_id # <<>> THEN fnArgs.item.item_id ELSE fnArgs.item.itemId)

\* C27: _normalize_detail_url resolves a protocol-relative URL to "https:" + URL,
\* keeps an absolute http or https URL, resolves a root-relative URL against the
\* origin of the search endpoint, gives the canonical item URL of the item id when
\* no URL field is usable, and None when there is no item id either.
C27_DetailUrlResolution ==
    (fn = "_normalize_detail_url" /\ fnResult.done) =>
        IF UsableUrlFields # <<>>
        THEN LET u == UsableUrlFields[1]
             IN /\ IsProtocolRelative(u) => fnResult.value = <<"h", "t", "t", "p", "s", ":">> \o u
                /\ IsAbsoluteHttp(u) => fnResult.value = u
                /\ IsRootRelative(u) => fnResult.value = API_ORIGIN \o u
        ELSE IF ClaimedItemId # <<>>
        THEN fnResult.value = <<"h", "t", "t", "p", "s", ":", "/", "/", "i", "t", "e", "m", ".", "t", "a", "o", "b", "a", "o", ".", "c", "o", "m", "/", "i", "t", "e", "m", ".", "h", "t", "m", "?", "i", "d", "=">> \o ClaimedItemId
        ELSE fnResult.value = None

\* a price field that is missing, empty or holds no digit
NoDigits(value) == value = None \/ \A i \in DOMAIN value : ~IsDigit(value[i])

\* the source items with a title left after the markup is gone and a detail URL
EmittableItems ==
    SelectSeq(fnArgs.items,
              LAMBDA src : strip_html(src.title) # <<>> /\ normalize_detail_url(src) # None)

\* C28: _extract_products emits a record for every source item with a non-empty
\* title and a resolvable detail URL, whatever its price fields hold; a price or
\* original price that is missing, empty or without digits is null in the record,
\* and one with digits is a number.
C28_TolerantPrices ==
    (fn = "_extract_products" /\ fnResult.done) =>
        LET records == fnResult.value
        IN /\ Len(records) = Len(EmittableItems)
           /\ \A i \in DOMAIN EmittableItems :
                LET src == EmittableItems[i]
                IN /\ records[i].title = strip_html(src.title)
                   /\ records[i].price = None <=> NoDigits(src.price)
                   /\ records[i].original_price = None <=> NoDigits(src.origPrice)

\* two items with a title and a URL, the first with a price without digits and no
\* original price, the second with "$88.00": both are emitted, with null and 88.0
C28_Witness ==
    /\ fn = "_extract_products"
    /\ fnResult.done
    /\ Len(fnArgs.items) = 2
    /\ Len(fnResult.value) = 2
    /\ fnArgs.items[1].price = <<"$">>
    /\ fnArgs.items[1].origPrice = None
    /\ fnResult.value[1].price = None
    /\ fnResult.value[1].original_price = None
    /\ fnArgs.items[2].price = <<"$", "8", "8", ".", "0", "0">>
    /\ fnResult.value[2].price = <<"8", "8", ".", "0">>

\* C34: every request of _fetch_page is self-consistent.  Its `sign` is the digest
\* of the token in use, "&", its own `t`, "&", its own `appKey`, "&" and its own
\* `data`; `t` is the clock reading of that call, so a retry carries its own
\* timestamp and, when its token or timestamp differs, another signature; and the
\* body is parsed with the `callback` of that request: a body that calls that name
\* is decoded, one that calls the name of another request is refused.
C34_RequestSelfConsistent ==
    fn = "_fetch_page" =>
        /\ \A n \in DOMAIN fnResult.value :
            LET call == fnArgs.calls[n]
                made == fnResult.value[n]
                req == made.request
            IN /\ req.sign = md5_hexdigest(call.token \o <<"&">> \o req.t \o <<"&">>
                                            \o req.appKey \o <<"&">> \o req.data)
               /\ req.t = IntToStr(call.clock)
               /\ req.appKey = fnArgs.app_key
               /\ made.payload = parse_jsonp(call.text, req.callback)
               /\ call.wrapper = req.callback => made.payload \notin {RuntimeError, JSONDecodeError}
               /\ call.wrapper \notin {None, req.callback} => made.payload = RuntimeError
        /\ Len(fnResult.value) = 2
            => LET first == fnResult.value[1].request
                   retry == fnResult.value[2].request
               IN /\ (fnArgs.calls[1].clock # fnArgs.calls[2].clock) => retry.t # first.t
                  /\ (fnArgs.calls[1].clock # fnArgs.calls[2].clock
                        \/ fnArgs.calls[1].token # fnArgs.calls[2].token)
                      => retry.sign # first.sign

\* the retry of page 2 was made a millisecond later with another token; the body
\* that answered it called the callback of the first request and was refused
C34_Witness ==
    /\ fn = "_fetch_page"
    /\ fnResult.done
    /\ fnArgs.page = 2
    /\ fnArgs.calls[1].clock = 99999 /\ fnArgs.calls[2].clock = 100000
    /\ fnArgs.calls[1].token # fnArgs.calls[2].token
    /\ fnArgs.calls[1].wrapper = fnResult.value[1].request.callback
    /\ fnArgs.calls[2].wrapper = fnResult.value[1].request.callback
    /\ fnResult.value[1].payload \notin {RuntimeError, JSONDecodeError}
    /\ fnResult.value[2].payload = RuntimeError
    /\ Contains(fnResult.value[2].request.data, <<"%", "2", "0", "%", "2", "6">>)

\* the lines of the file after call n that assign the key
KeyLinesAfter(n) ==
    LET lines == splitlines(fnResult.value[n])
    IN {i \in DOMAIN lines : IsKeyLine(lines[i])}

\* C37: a second _upsert_env_key with the same arguments leaves the file as the
\* first left it, and after each call the file has exactly one line that assigns
\* the key, which is key="value" with the new value quoted, however many lines
\* assigned the key before.
C37_UpsertIdempotentSingle ==
    fn = "_upsert_env_key, twice" =>
        /\ Len(fnResult.value) = 2 => fnResult.value[2] = fnResult.value[1]
        /\ \A n \in DOMAIN fnResult.value :
            /\ Cardinality(KeyLinesAfter(n)) = 1
            /\ \A i \in KeyLinesAfter(n) : splitlines(fnResult.value[n])[i] = ExpectedEnvLine

====
